---- MODULE Spec2Model ----
(***************************************************************************)
(* A model of the bmi323 driver: the register transport (rw.rs), the       *)
(* indirect feature-memory access and the feature enabling sequences       *)
(* (feature/*.rs), and the readiness poll loops (lib.rs, feature/mod.rs,   *)
(* feature/axis_remap.rs).                                                 *)
(*                                                                         *)
(* One driver handle runs one operation at a time.  A step of the model is *)
(* one bus transaction together with the straight-line code around it (the *)
(* delays, the decoding of what was read, the loop test).  The bus and the *)
(* device are the environment: every transaction may fail, and every read  *)
(* returns bytes the device chooses.  `trace` is what the bus and the      *)
(* delay provider observe during the current operation, in order.          *)
(***************************************************************************)
EXTENDS Integers, Sequences, FiniteSets, TLC

VARIABLES
  debug,    \* cfg!(debug_assertions): whether debug_assert! is compiled in
  op,       \* the operation in progress (or the last one), with its arguments
  pc,       \* the position inside the operation; "done" when it has returned,
            \* "idle" between operations
  tries,    \* the retry counter of the poll loop in progress
  trace,    \* bus transactions and delays of the operation, oldest first
  buf,      \* the caller's receive buffer (the payload of the last read)
  f,        \* enable_<feature>: the Features value read, then modified
  result,   \* "none" | "running" | "Ok" | "I2c" | "Data" | "Init" | "Panic"
  flips,    \* how often the polled register changed value in this poll loop
  dequeue,  \* the queue of decoded events of the handle (feature `events`)
  yielded,  \* the events wait_event has returned so far, oldest first
  handles,  \* two handles on one shared bus: the operation, position, retry
            \* counter, buffer and result of each (<<>> with a single handle)
  wire      \* the transactions of the shared bus with the handle that
            \* issued each, oldest first

vars == <<debug, op, pc, tries, trace, buf, f, result, flips, dequeue, yielded,
          handles, wire>>

(***************************************************************************)
(* Bounds of the model.                                                    *)
(***************************************************************************)
\* longest payload whose every byte content is enumerated
MaxLen == 2
\* how often the device may change the value of a register while it is polled
MaxFlips == 1
\* the last poll of a loop, counted from its start, at which the device may
\* change the value (it may also change it once the budget is used up)
MaxFlipAt == 2
\* interrupt edges a handle sees in its life
MaxEdges == 2

(***************************************************************************)
(* Register map (defs.rs), commands and timing constants.                  *)
(***************************************************************************)
RegChipId == 0
RegStatus == 2
RegFeatureIo0 == 16
RegFeatureIo1 == 17
RegFeatureIo2 == 18
RegFeatureIoStatus == 20
RegAccConf == 32
RegGyrConf == 33
RegFeatureCtrl == 64
RegFeatureDataAddr == 65
RegFeatureDataTx == 66
RegFeatureDataStatus == 67
RegFeatureEngineStatus == 69
RegCmd == 126

RegFifoWatermark == 53
RegFifoFillLevel == 21
RegFifoData == 22
RegIntStatusInt1 == 13
RegAccDataX == 3
RegFeatureEventExt == 71
CmdSoftReset == 57007
SOFT_RESET_DELAY == 1500
FIFO_TMP_SIZE == 256
\* lib.rs: dequeue: heapless::Deque<Event, 16>
DEQUE_CAP == 16
CmdAxisMapUpdate == 768

\* FeatureAddr (feature/mod.rs)
AddrAxisRemap == 3
AddrStepCnt == 16
AddrAnyMotion == 5
AddrNoMotion == 8
AddrFlat == 11
AddrSigMotion == 13
AddrOrient == 28
AddrTap == 30
AddrTilt == 33
AddrAltAutoConfig == 35
AddrStSelect == 37
AddrGyroScSelect == 38
AddrGyroScStConf == 39
AddrGyroScStCoefficients == 40

\* rw.rs: the transaction buffers are [0u8; 32]
BUF_SIZE == 32
\* rw.rs: debug_assert!(data.len() <= 31) and debug_assert!(buf.len() <= 30)
WRITE_ASSERT_MAX == 31
READ_ASSERT_MAX == 30
\* rw.rs: the two dummy bytes in front of every read
DUMMY_BYTES == 2
\* rw.rs: delay_us(20) after a write
WRITE_SETTLE_US == 20
\* lib.rs wait_for: `if retries > 20`, delay_ms(2)
WAIT_FOR_RETRIES == 20
WAIT_FOR_DELAY_MS == 2
\* feature/mod.rs enable_feature_engine: `if tries > 10`, delay_us(100_000)
ENGINE_TRIES == 10
ENGINE_DELAY_US == 100000
\* feature/mod.rs wait_feature_data_ready: `if tries > 100`, delay_ms(2)
FEATURE_READY_TRIES == 100
FEATURE_READY_DELAY_MS == 2
\* feature/axis_remap.rs wait_axis_map_complete: `if tries > 100`, delay_ms(2)
AXIS_MAP_TRIES == 100
AXIS_MAP_DELAY_MS == 2

(***************************************************************************)
(* Bytes and words.                                                        *)
(***************************************************************************)
Bit(v, i) == (v \div (2 ^ i)) % 2

\* u16::to_le_bytes / u16::from_le_bytes
to_le_bytes(v) == <<v % 256, (v \div 256) % 256>>
from_le_bytes(b) == b[1] + 256 * b[2]

Zeros(n) == [i \in 1..n |-> 0]

\* a payload of n distinct-looking bytes, used where only length and order matter
Pattern(n) == [i \in 1..n |-> (i * 7) % 256]

RECURSIVE SeqsOf(_, _)
SeqsOf(S, n) == IF n = 0 THEN {<<>>}
                ELSE {<<x>> \o s : x \in S, s \in SeqsOf(S, n - 1)}

(***************************************************************************)
(* What the bus and the delay provider observe.                            *)
(***************************************************************************)
\* I2c::write(ADDR_I2C_PRIM, bytes)
I2cWrite(bytes, ok) ==
  [k |-> "write", out |-> bytes, in |-> <<>>, ok |-> ok, us |-> 0]
\* I2c::write_read(ADDR_I2C_PRIM, out, &mut in)
I2cWriteRead(out, in, ok) ==
  [k |-> "write_read", out |-> out, in |-> in, ok |-> ok, us |-> 0]
\* DelayNs::delay_us(us); delay_ms(ms) is delay_us(1000 * ms)
Delay(us) ==
  [k |-> "delay", out |-> <<>>, in |-> <<>>, ok |-> TRUE, us |-> us]
DelayMs(ms) == Delay(1000 * ms)

(***************************************************************************)
(* Register transport (rw.rs).  Each operator gives the outcome of one     *)
(* call: res is "Ok", "I2c" or "Panic", ev is what the bus and the delay   *)
(* provider observed, buf is what the caller's buffer holds afterwards.    *)
(* `ok` is whether the bus transaction succeeds and `frame` is what the    *)
(* device puts into the read buffer; both are chosen by the environment.   *)
(***************************************************************************)
\* read_bytes with a wrong offset: only one leading byte is dropped
read_bytes_skip1(reg, n, ok, frame) ==
  IF debug /\ n > READ_ASSERT_MAX THEN [res |-> "Panic", ev |-> <<>>, buf |-> <<>>]
  ELSE LET read_len == n + DUMMY_BYTES IN
    IF read_len > BUF_SIZE THEN [res |-> "Panic", ev |-> <<>>, buf |-> <<>>]
    ELSE IF ~ok
      THEN [res |-> "I2c", ev |-> <<I2cWriteRead(<<reg>>, Zeros(read_len), FALSE)>>,
            buf |-> <<>>]
      ELSE [res |-> "Ok", ev |-> <<I2cWriteRead(<<reg>>, frame, TRUE)>>,
            buf |-> SubSeq(frame, 2, read_len - 1)]

\* read_bytes without its length checks: an oversized read is clipped to the buffer
read_bytes_clip(reg, n, ok, frame) ==
  LET read_len == IF n + DUMMY_BYTES > BUF_SIZE THEN BUF_SIZE ELSE n + DUMMY_BYTES
      got == SubSeq(frame, 1, read_len) IN
    IF ~ok
      THEN [res |-> "I2c", ev |-> <<I2cWriteRead(<<reg>>, Zeros(read_len), FALSE)>>,
            buf |-> <<>>]
      ELSE [res |-> "Ok", ev |-> <<I2cWriteRead(<<reg>>, got, TRUE)>>,
            buf |-> SubSeq(got, DUMMY_BYTES + 1, read_len)]

read_bytes(reg, n, ok, frame) ==
  \* debug_assert!(buf.len() <= 30)
  IF debug /\ n > READ_ASSERT_MAX THEN [res |-> "Panic", ev |-> <<>>, buf |-> <<>>]
  ELSE LET read_len == n + DUMMY_BYTES IN
    \* &mut tmp[..read_len] of a [u8; 32] panics when read_len > 32
    IF read_len > BUF_SIZE THEN [res |-> "Panic", ev |-> <<>>, buf |-> <<>>]
    ELSE IF ~ok
      THEN [res |-> "I2c", ev |-> <<I2cWriteRead(<<reg>>, Zeros(read_len), FALSE)>>,
            buf |-> <<>>]
      \* buf.copy_from_slice(&tmp[2..read_len])
      ELSE [res |-> "Ok", ev |-> <<I2cWriteRead(<<reg>>, frame, TRUE)>>,
            buf |-> SubSeq(frame, DUMMY_BYTES + 1, read_len)]

\* write_bytes without the settle delay
write_bytes_nodelay(reg, data, ok) ==
  IF debug /\ Len(data) > WRITE_ASSERT_MAX THEN [res |-> "Panic", ev |-> <<>>]
  ELSE LET len == 1 + Len(data) IN
    IF len > BUF_SIZE THEN [res |-> "Panic", ev |-> <<>>]
    ELSE IF ~ok THEN [res |-> "I2c", ev |-> <<I2cWrite(<<reg>> \o data, FALSE)>>]
    ELSE [res |-> "Ok", ev |-> <<I2cWrite(<<reg>> \o data, TRUE)>>]

write_bytes(reg, data, ok) ==
  \* debug_assert!(data.len() <= 31)
  IF debug /\ Len(data) > WRITE_ASSERT_MAX THEN [res |-> "Panic", ev |-> <<>>]
  ELSE LET len == 1 + Len(data) IN
    \* buf[1..len] of a [u8; 32] panics when len > 32
    IF len > BUF_SIZE THEN [res |-> "Panic", ev |-> <<>>]
    ELSE IF ~ok THEN [res |-> "I2c", ev |-> <<I2cWrite(<<reg>> \o data, FALSE)>>]
    ELSE [res |-> "Ok",
          ev |-> <<I2cWrite(<<reg>> \o data, TRUE), Delay(WRITE_SETTLE_US)>>]

\* write_u16: the value goes out little-endian
write_u16(reg, value, ok) == write_bytes(reg, to_le_bytes(value), ok)

(***************************************************************************)
(* Bit-packed register values (#[packbits::pack]): fields are laid out     *)
(* from bit 0 of the little-endian value, in declaration order.            *)
(***************************************************************************)
\* lib.rs Status: skip(5), drdy_temp, drdy_gyr, drdy_acc
Status_decode(b) ==
  [drdy_temp |-> Bit(b[1], 5) = 1, drdy_gyr |-> Bit(b[1], 6) = 1,
   drdy_acc |-> Bit(b[1], 7) = 1]

\* feature/mod.rs FeatureDataStatus: out_of_bound_err, data_tx_ready
FeatureDataStatus_decode(b) ==
  [out_of_bound_err |-> Bit(from_le_bytes(b), 0) = 1,
   data_tx_ready |-> Bit(from_le_bytes(b), 1) = 1]

\* TryFrom<u8> for FeatureIoError: the codes that have a variant
FeatureIoError_valid(c) == c \in {0, 1, 3, 5, 6, 8, 9, 10, 11, 12, 13, 14, 15}
FeatureIoError_Activated == 1

\* feature/mod.rs FeatureIo1: error_status(4), four flags, skip(2),
\* axis_map_complete, engine_state(2).  ok is whether try_from succeeds.
FeatureIo1_decode(b) ==
  LET w == from_le_bytes(b) IN
  [ok |-> FeatureIoError_valid(w % 16),
   error_status |-> w % 16,
   axis_map_complete |-> Bit(w, 10) = 1,
   engine_state |-> (w \div 2048) % 4]

\* feature/axis_remap.rs FeatureEngineStatusReg: skip(10), axis_map_complete,
\* engine_state(2); FeatureEngineState::try_from never fails
FeatureEngineStatusReg_decode(b) ==
  LET w == from_le_bytes(b) IN
  [axis_map_complete |-> Bit(w, 10) = 1, engine_state |-> (w \div 2048) % 4]

\* feature/mod.rs Features: 15 flags in bits 0..14; the value is kept as the
\* 15-bit number whose bit i is flag i
Features_decode(b) == from_le_bytes(b) % 32768
Features_encode(v) == to_le_bytes(v)
\* an assignment that starts from an empty mask
WithBit_fresh(v, i, x) == x * (2 ^ i)

\* f.<flag i> = x on the mask v
WithBit(v, i, x) == v - Bit(v, i) * (2 ^ i) + x * (2 ^ i)

\* the configuration word without the skipped bit: mode directly after avg
SensorConfig_encode_nogap(cfg) ==
  to_le_bytes(cfg[1] + 16 * cfg[2] + 128 * cfg[3] + 256 * cfg[4] + 2048 * cfg[5])

\* accel.rs AccelConfig / gyro.rs GyroConfig: odr(4), range(3), bw(1), avg(3),
\* skip(1), mode(3); cfg is <<odr, range, bw, avg, mode>> as raw codes
SensorConfig_encode(cfg) ==
  to_le_bytes(cfg[1] + 16 * cfg[2] + 128 * cfg[3] + 256 * cfg[4] + 4096 * cfg[5])

\* feature/axis_remap.rs AxisRemap: order(3), invert_x, invert_y, invert_z;
\* map is <<order, invert_x, invert_y, invert_z>>
AxisRemap_encode(map) ==
  to_le_bytes(map[1] + 8 * map[2] + 16 * map[3] + 32 * map[4])

(***************************************************************************)
(* The bit-packed types.  #[packbits::pack(bytes = N)] lays the fields of  *)
(* a struct out in declaration order from bit 0 of the little-endian       *)
(* N-byte value: #[bits(w)] gives a field w bits, #[skip(w)] leaves w bits *)
(* unused, a field without attribute takes the width of its type.  An      *)
(* enumerated field is converted with the enum's `as u8` and TryFrom<u8>.  *)
(***************************************************************************)
Field(n, w, k) == [n |-> n, w |-> w, k |-> k]

\* AccelPowerMode whose TryFrom<u8> takes the reserved code 5 for Normal
AccelPowerMode_enum_lenient ==
  [disc |-> [Disable |-> 0, LowPower |-> 3, Normal |-> 4, HighPerf |-> 7],
   try |-> (0 :> "Disable" @@ 3 :> "LowPower" @@ 4 :> "Normal" @@ 5 :> "Normal"
            @@ 7 :> "HighPerf")]

\* accel.rs AccelPowerMode: `as u8` and TryFrom<u8>, Err(()) for any other code
AccelPowerMode_enum ==
  [disc |-> [Disable |-> 0, LowPower |-> 3, Normal |-> 4, HighPerf |-> 7],
   try |-> (0 :> "Disable" @@ 3 :> "LowPower" @@ 4 :> "Normal" @@ 7 :> "HighPerf")]

\* accel.rs AccelRange: `as u8` and TryFrom<u8>, Err(()) for any other code
AccelRange_enum ==
  [disc |-> [G2 |-> 0, G4 |-> 1, G8 |-> 2, G16 |-> 3],
   try |-> (0 :> "G2" @@ 1 :> "G4" @@ 2 :> "G8" @@ 3 :> "G16")]

\* interrupt.rs ActiveLevel: `as u8` and TryFrom<u8>, Err(()) for any other code
ActiveLevel_enum ==
  [disc |-> [ActiveLow |-> 0, ActiveHigh |-> 1],
   try |-> (0 :> "ActiveLow" @@ 1 :> "ActiveHigh")]

\* types.rs AverageNum: `as u8` and TryFrom<u8>, Err(()) for any other code
AverageNum_enum ==
  [disc |-> [No |-> 0, Avg2 |-> 1, Avg4 |-> 2, Avg8 |-> 3, Avg16 |-> 4, Avg32 |-> 5, Avg64 |-> 6],
   try |-> (0 :> "No" @@ 1 :> "Avg2" @@ 2 :> "Avg4" @@ 3 :> "Avg8" @@ 4 :> "Avg16" @@ 5 :> "Avg32" @@ 6 :> "Avg64")]

\* feature/axis_remap.rs AxisOrder: `as u8` and TryFrom<u8>, Err(()) for any other code
AxisOrder_enum ==
  [disc |-> [XYZ |-> 0, YXZ |-> 1, XZY |-> 2, ZXY |-> 3, YZX |-> 4, ZYX |-> 5],
   try |-> (0 :> "XYZ" @@ 1 :> "YXZ" @@ 2 :> "XZY" @@ 3 :> "ZXY" @@ 4 :> "YZX" @@ 5 :> "ZYX")]

\* types.rs Bandwidth: `as u8` and TryFrom<u8>, Err(()) for any other code
Bandwidth_enum ==
  [disc |-> [OdrHalf |-> 0, OdrQuarter |-> 1],
   try |-> (0 :> "OdrHalf" @@ 1 :> "OdrQuarter")]

\* feature/mod.rs BlockingRule: `as u8` and TryFrom<u8>, Err(()) for any other code
BlockingRule_enum ==
  [disc |-> [Disabled |-> 0, AccelOver1p5g |-> 1, AccelOver1p5gOrHalfSlope |-> 2, AccelOver1p5gOrSlope |-> 3],
   try |-> (0 :> "Disabled" @@ 1 :> "AccelOver1p5g" @@ 2 :> "AccelOver1p5gOrHalfSlope" @@ 3 :> "AccelOver1p5gOrSlope")]

\* interrupt.rs Face: `as u8` and TryFrom<u8>, Err(()) for any other code
Face_enum ==
  [disc |-> [Up |-> 0, Down |-> 1],
   try |-> (0 :> "Up" @@ 1 :> "Down")]

\* feature/mod.rs FeatureEngineState: `as u8` and TryFrom<u8>, unreachable!() for any other code
FeatureEngineState_enum ==
  [disc |-> [FeatureMode |-> 0, GyroScRunning |-> 1, SelfTestMode |-> 2, ErrorMode |-> 3],
   try |-> (0 :> "FeatureMode" @@ 1 :> "GyroScRunning" @@ 2 :> "SelfTestMode" @@ 3 :> "ErrorMode")]

\* feature/mod.rs FeatureIoError: `as u8` and TryFrom<u8>, Err(()) for any other code
FeatureIoError_enum ==
  [disc |-> [Inactive |-> 0, Activated |-> 1, ConfigStringWrong |-> 3, NoError |-> 5, AxisMapCmdNotProcessed |-> 6, I3cTcSyncError |-> 8, OngoingScOrStAborted |-> 9, ScCmdIgnored |-> 10, StCmdIgnored |-> 11, ScCmdNotProcessed |-> 12, AutoModeIllegalConfig |-> 13, TcSyncEnableWhileSt |-> 14, IllegalConfigWhileTcSync |-> 15],
   try |-> (0 :> "Inactive" @@ 1 :> "Activated" @@ 3 :> "ConfigStringWrong" @@ 5 :> "NoError" @@ 6 :> "AxisMapCmdNotProcessed" @@ 8 :> "I3cTcSyncError" @@ 9 :> "OngoingScOrStAborted" @@ 10 :> "ScCmdIgnored" @@ 11 :> "StCmdIgnored" @@ 12 :> "ScCmdNotProcessed" @@ 13 :> "AutoModeIllegalConfig" @@ 14 :> "TcSyncEnableWhileSt" @@ 15 :> "IllegalConfigWhileTcSync")]

\* gyro.rs GyroPowerMode: `as u8` and TryFrom<u8>, Err(()) for any other code
GyroPowerMode_enum ==
  [disc |-> [Disable |-> 0, Suspend |-> 1, LowPower |-> 3, Normal |-> 4, HighPerf |-> 7],
   try |-> (0 :> "Disable" @@ 1 :> "Suspend" @@ 3 :> "LowPower" @@ 4 :> "Normal" @@ 7 :> "HighPerf")]

\* gyro.rs GyroRange: `as u8` and TryFrom<u8>, Err(()) for any other code
GyroRange_enum ==
  [disc |-> [DPS125 |-> 0, DPS250 |-> 1, DPS500 |-> 2, DPS1000 |-> 3, DPS2000 |-> 4],
   try |-> (0 :> "DPS125" @@ 1 :> "DPS250" @@ 2 :> "DPS500" @@ 3 :> "DPS1000" @@ 4 :> "DPS2000")]

\* IntPin whose TryFrom<u8> takes the code 3 for Int2
IntPin_enum_ibi ==
  [disc |-> [None |-> 0, Int1 |-> 1, Int2 |-> 2],
   try |-> (0 :> "None" @@ 1 :> "Int1" @@ 2 :> "Int2" @@ 3 :> "Int2")]

\* interrupt.rs IntPin: `as u8`, and TryFrom<u8> where 0x3 (IBI) is taken for
\* None and a code above 3 is Err(())
IntPin_enum ==
  [disc |-> [None |-> 0, Int1 |-> 1, Int2 |-> 2],
   try |-> (0 :> "None" @@ 1 :> "Int1" @@ 2 :> "Int2" @@ 3 :> "None")]

\* feature/orientation.rs OrientationMode: `as u8` and TryFrom<u8>, Err(()) for any other code
OrientationMode_enum ==
  [disc |-> [Symmetric |-> 0, MildAsymmetric |-> 1, StrongAsymmetric |-> 2],
   try |-> (0 :> "Symmetric" @@ 1 :> "MildAsymmetric" @@ 2 :> "StrongAsymmetric")]

\* interrupt.rs OrientationPl: `as u8` and TryFrom<u8>, Err(()) for any other code
OrientationPl_enum ==
  [disc |-> [PortraitUpRight |-> 0, LandscapeLeft |-> 1, PortraitUpDown |-> 2, LandscapeRight |-> 3],
   try |-> (0 :> "PortraitUpRight" @@ 1 :> "LandscapeLeft" @@ 2 :> "PortraitUpDown" @@ 3 :> "LandscapeRight")]

\* types.rs OutputDataRate: `as u8` and TryFrom<u8>, Err(()) for any other code
OutputDataRate_enum ==
  [disc |-> [Hz0_78 |-> 1, Hz1_56 |-> 2, Hz3_12 |-> 3, Hz6_25 |-> 4, Hz12_5 |-> 5, Hz25 |-> 6, Hz50 |-> 7, Hz100 |-> 8, Hz200 |-> 9, Hz400 |-> 10, Hz800 |-> 11, Hz1600 |-> 12, Hz3200 |-> 13, Hz6400 |-> 14],
   try |-> (1 :> "Hz0_78" @@ 2 :> "Hz1_56" @@ 3 :> "Hz3_12" @@ 4 :> "Hz6_25" @@ 5 :> "Hz12_5" @@ 6 :> "Hz25" @@ 7 :> "Hz50" @@ 8 :> "Hz100" @@ 9 :> "Hz200" @@ 10 :> "Hz400" @@ 11 :> "Hz800" @@ 12 :> "Hz1600" @@ 13 :> "Hz3200" @@ 14 :> "Hz6400")]

\* interrupt.rs OutputMode: `as u8` and TryFrom<u8>, Err(()) for any other code
OutputMode_enum ==
  [disc |-> [PushPull |-> 0, OpenDrain |-> 1],
   try |-> (0 :> "PushPull" @@ 1 :> "OpenDrain")]

\* TapAxis whose `as u8` codes of Y and Z are exchanged
TapAxis_enum_swapped ==
  [disc |-> [X |-> 0, Y |-> 2, Z |-> 1],
   try |-> (0 :> "X" @@ 1 :> "Y" @@ 2 :> "Z")]

\* feature/tap.rs TapAxis: `as u8` and TryFrom<u8>, Err(()) for any other code
TapAxis_enum ==
  [disc |-> [X |-> 0, Y |-> 1, Z |-> 2],
   try |-> (0 :> "X" @@ 1 :> "Y" @@ 2 :> "Z")]

\* feature/tap.rs TapMode: `as u8` and TryFrom<u8>, Err(()) for any other code
TapMode_enum ==
  [disc |-> [Mode0 |-> 0, Mode1 |-> 1, Mode2 |-> 2, Mode3 |-> 3],
   try |-> (0 :> "Mode0" @@ 1 :> "Mode1" @@ 2 :> "Mode2" @@ 3 :> "Mode3")]

\* accel.rs AccelConfig
AccelConfig_layout ==
  [bytes |-> 2, fields |-> <<
     Field("odr", 4, "OutputDataRate"),
     Field("range", 3, "AccelRange"),
     Field("bw", 1, "Bandwidth"),
     Field("avg", 3, "AverageNum"),
     Field("", 1, "skip"),
     Field("mode", 3, "AccelPowerMode")>>]

\* alt.rs AltEnable
AltEnable_layout ==
  [bytes |-> 2, fields |-> <<
     Field("accel", 1, "bool"),
     Field("", 3, "skip"),
     Field("gyro", 1, "bool"),
     Field("", 3, "skip"),
     Field("reset_on_user_conf_write", 1, "bool")>>]

\* alt.rs AltStatus
AltStatus_layout ==
  [bytes |-> 2, fields |-> <<
     Field("accel", 1, "bool"),
     Field("", 3, "skip"),
     Field("gyro", 1, "bool")>>]

\* feature/any_no_motion.rs AnyNoMotionConfig
AnyNoMotionConfig_layout ==
  [bytes |-> 6, fields |-> <<
     Field("slope_threshold", 12, "uint"),
     Field("acc_ref_update", 1, "bool"),
     Field("", 3, "skip"),
     Field("hysteresis", 10, "uint"),
     Field("", 6, "skip"),
     Field("duration", 13, "uint"),
     Field("wait_time", 3, "uint")>>]

\* feature/axis_remap.rs FeatureEngineStatusReg
FeatureEngineStatusReg_layout ==
  [bytes |-> 2, fields |-> <<
     Field("", 10, "skip"),
     Field("axis_map_complete", 1, "bool"),
     Field("engine_state", 2, "FeatureEngineState")>>]

\* feature/axis_remap.rs AxisRemap
AxisRemap_layout ==
  [bytes |-> 2, fields |-> <<
     Field("order", 3, "AxisOrder"),
     Field("invert_x", 1, "bool"),
     Field("invert_y", 1, "bool"),
     Field("invert_z", 1, "bool")>>]

\* feature/flat.rs FlatConfig
FlatConfig_layout ==
  [bytes |-> 4, fields |-> <<
     Field("theta", 6, "uint"),
     Field("blocking", 2, "BlockingRule"),
     Field("hold_time", 8, "uint"),
     Field("slope_threshold", 8, "uint"),
     Field("hysterisis", 8, "uint")>>]

\* feature/mod.rs FeatureIo1
FeatureIo1_layout ==
  [bytes |-> 2, fields |-> <<
     Field("error_status", 4, "FeatureIoError"),
     Field("sc_st_complete", 1, "bool"),
     Field("gyro_sc_result", 1, "bool"),
     Field("st_result", 1, "bool"),
     Field("sample_rate_err", 1, "bool"),
     Field("", 2, "skip"),
     Field("axis_map_complete", 1, "bool"),
     Field("engine_state", 2, "FeatureEngineState")>>]

\* feature/mod.rs Features
Features_layout ==
  [bytes |-> 2, fields |-> <<
     Field("no_motion_x", 1, "bool"),
     Field("no_motion_y", 1, "bool"),
     Field("no_motion_z", 1, "bool"),
     Field("any_motion_x", 1, "bool"),
     Field("any_motion_y", 1, "bool"),
     Field("any_motion_z", 1, "bool"),
     Field("flat", 1, "bool"),
     Field("orientation", 1, "bool"),
     Field("step_detector", 1, "bool"),
     Field("step_counter", 1, "bool"),
     Field("sig_motion", 1, "bool"),
     Field("tilt", 1, "bool"),
     Field("tap_single", 1, "bool"),
     Field("tap_double", 1, "bool"),
     Field("tap_triple", 1, "bool")>>]

\* feature/mod.rs FeatureDataStatus
FeatureDataStatus_layout ==
  [bytes |-> 2, fields |-> <<
     Field("out_of_bound_err", 1, "bool"),
     Field("data_tx_ready", 1, "bool")>>]

\* feature/mod.rs FeatureEngineStatus
FeatureEngineStatus_layout ==
  [bytes |-> 2, fields |-> <<
     Field("halt_or_sleep", 1, "bool"),
     Field("overload", 1, "bool"),
     Field("", 1, "skip"),
     Field("data_tx_active", 1, "bool"),
     Field("disabled_by_host", 1, "bool"),
     Field("watchdog_not_ack", 1, "bool")>>]

\* feature/orientation.rs OrientationConfig
OrientationConfig_layout ==
  [bytes |-> 4, fields |-> <<
     Field("ud_en", 1, "bool"),
     Field("mode", 2, "OrientationMode"),
     Field("blocking", 2, "BlockingRule"),
     Field("theta", 6, "uint"),
     Field("hold_time", 5, "uint"),
     Field("slope_threshold", 8, "uint"),
     Field("hysterisis", 8, "uint")>>]

\* feature/sig_motion.rs SigMotionConfig
SigMotionConfig_layout ==
  [bytes |-> 6, fields |-> <<
     Field("block_size", 16, "uint"),
     Field("p2p_min", 10, "uint"),
     Field("mcr_min", 6, "uint"),
     Field("p2p_max", 10, "uint"),
     Field("mcr_max", 6, "uint")>>]

\* feature/step.rs StepWord0
StepWord0_layout ==
  [bytes |-> 2, fields |-> <<
     Field("watermark", 10, "uint"),
     Field("reset", 1, "bool")>>]

\* feature/tap.rs TapConfig
TapConfig_layout ==
  [bytes |-> 6, fields |-> <<
     Field("axis", 2, "TapAxis"),
     Field("wait_for_timeout", 1, "bool"),
     Field("max_peaks", 3, "uint"),
     Field("mode", 2, "TapMode"),
     Field("", 8, "skip"),
     Field("peak_thres", 10, "uint"),
     Field("max_gest_dur", 6, "uint"),
     Field("max_dur_bw_peaks", 4, "uint"),
     Field("shock_sett_dur", 4, "uint"),
     Field("min_quiet_dur_bw_taps", 4, "uint"),
     Field("quiet_time_after_gest", 4, "uint")>>]

\* feature/tilt.rs TiltConfig
TiltConfig_layout ==
  [bytes |-> 4, fields |-> <<
     Field("segment_size", 8, "uint"),
     Field("min_tilt_angle", 8, "uint"),
     Field("beta_acc_mean", 16, "uint")>>]

\* fifo.rs FifoConfig
FifoConfig_layout ==
  [bytes |-> 2, fields |-> <<
     Field("stop_on_full", 1, "bool"),
     Field("", 7, "skip"),
     Field("time_en", 1, "bool"),
     Field("accel_en", 1, "bool"),
     Field("gyro_en", 1, "bool"),
     Field("temp_en", 1, "bool")>>]

\* FifoWatermark with a field wider than its two bytes
FifoWatermark_layout_wide ==
  [bytes |-> 2, fields |-> <<
     Field("watermark", 17, "uint")>>]

\* fifo.rs FifoWatermark
FifoWatermark_layout ==
  [bytes |-> 2, fields |-> <<
     Field("watermark", 10, "uint")>>]

\* fifo.rs FifoFillLevel
FifoFillLevel_layout ==
  [bytes |-> 2, fields |-> <<
     Field("level", 11, "uint")>>]

\* fifo.rs FifoCtrl
FifoCtrl_layout ==
  [bytes |-> 2, fields |-> <<
     Field("flush", 1, "bool")>>]

\* gyro.rs GyroConfig
GyroConfig_layout ==
  [bytes |-> 2, fields |-> <<
     Field("odr", 4, "OutputDataRate"),
     Field("range", 3, "GyroRange"),
     Field("bw", 1, "Bandwidth"),
     Field("avg", 3, "AverageNum"),
     Field("", 1, "skip"),
     Field("mode", 3, "GyroPowerMode")>>]

\* interrupt.rs IntMap
IntMap_layout ==
  [bytes |-> 4, fields |-> <<
     Field("no_motion", 2, "IntPin"),
     Field("any_motion", 2, "IntPin"),
     Field("flat", 2, "IntPin"),
     Field("orientation", 2, "IntPin"),
     Field("step_detector", 2, "IntPin"),
     Field("step_counter", 2, "IntPin"),
     Field("sig_motion", 2, "IntPin"),
     Field("tilt", 2, "IntPin"),
     Field("tap", 2, "IntPin"),
     Field("", 2, "skip"),
     Field("err_status", 2, "IntPin"),
     Field("temp_data_ready", 2, "IntPin"),
     Field("gyro_data_ready", 2, "IntPin"),
     Field("accel_data_ready", 2, "IntPin"),
     Field("fifo_watermark", 2, "IntPin"),
     Field("fifo_full", 2, "IntPin")>>]

\* interrupt.rs FeatureEventExt
FeatureEventExt_layout ==
  [bytes |-> 2, fields |-> <<
     Field("pl", 2, "OrientationPl"),
     Field("face", 1, "Face"),
     Field("s_tap", 1, "bool"),
     Field("d_tap", 1, "bool"),
     Field("t_tap", 1, "bool")>>]

\* interrupt.rs IntConfReg
IntConfReg_layout ==
  [bytes |-> 2, fields |-> <<
     Field("latch", 1, "bool")>>]

\* interrupt.rs IoIntCtrl
IoIntCtrl_layout ==
  [bytes |-> 2, fields |-> <<
     Field("int1_level", 1, "ActiveLevel"),
     Field("int1_output", 1, "OutputMode"),
     Field("int1_enable", 1, "bool"),
     Field("", 5, "skip"),
     Field("int2_level", 1, "ActiveLevel"),
     Field("int2_output", 1, "OutputMode"),
     Field("int2_enable", 1, "bool")>>]

\* interrupt.rs IntStatus
IntStatus_layout ==
  [bytes |-> 2, fields |-> <<
     Field("no_motion", 1, "bool"),
     Field("any_motion", 1, "bool"),
     Field("flat", 1, "bool"),
     Field("orientation", 1, "bool"),
     Field("step_detector", 1, "bool"),
     Field("step_counter", 1, "bool"),
     Field("sig_motion", 1, "bool"),
     Field("tilt", 1, "bool"),
     Field("tap", 1, "bool"),
     Field("", 1, "skip"),
     Field("err_status", 1, "bool"),
     Field("temp_data_ready", 1, "bool"),
     Field("gyro_data_ready", 1, "bool"),
     Field("accel_data_ready", 1, "bool"),
     Field("fifo_watermark", 1, "bool"),
     Field("fifo_full", 1, "bool")>>]

\* lib.rs Status
Status_layout ==
  [bytes |-> 1, fields |-> <<
     Field("", 5, "skip"),
     Field("drdy_temp", 1, "bool"),
     Field("drdy_gyr", 1, "bool"),
     Field("drdy_acc", 1, "bool")>>]

\* lib.rs ChipId
ChipId_layout ==
  [bytes |-> 1, fields |-> <<
     Field("id", 8, "uint")>>]

\* lib.rs SaturationFlags
SaturationFlags_layout ==
  [bytes |-> 2, fields |-> <<
     Field("acc_x", 1, "bool"),
     Field("acc_y", 1, "bool"),
     Field("acc_z", 1, "bool"),
     Field("gyr_x", 1, "bool"),
     Field("gyr_y", 1, "bool"),
     Field("gyr_z", 1, "bool")>>]

\* offset.rs AccelOffsetGain
AccelOffsetGain_layout ==
  [bytes |-> 12, fields |-> <<
     Field("off_x", 14, "int"),
     Field("", 2, "skip"),
     Field("gain_x", 8, "int"),
     Field("", 8, "skip"),
     Field("off_y", 14, "int"),
     Field("", 2, "skip"),
     Field("gain_y", 8, "int"),
     Field("", 8, "skip"),
     Field("off_z", 14, "int"),
     Field("", 2, "skip"),
     Field("gain_z", 8, "int")>>]

\* offset.rs GyroOffsetGain
GyroOffsetGain_layout ==
  [bytes |-> 12, fields |-> <<
     Field("off_x", 10, "int"),
     Field("", 6, "skip"),
     Field("gain_x", 7, "int"),
     Field("", 9, "skip"),
     Field("off_y", 10, "int"),
     Field("", 6, "skip"),
     Field("gain_y", 7, "int"),
     Field("", 9, "skip"),
     Field("off_z", 10, "int"),
     Field("", 6, "skip"),
     Field("gain_z", 7, "int")>>]

\* types.rs XYZ
XYZ_layout ==
  [bytes |-> 6, fields |-> <<
     Field("x", 16, "int"),
     Field("y", 16, "int"),
     Field("z", 16, "int")>>]

Enum(k) ==
  CASE k = "AccelPowerMode" -> AccelPowerMode_enum
    [] k = "AccelRange" -> AccelRange_enum
    [] k = "ActiveLevel" -> ActiveLevel_enum
    [] k = "AverageNum" -> AverageNum_enum
    [] k = "AxisOrder" -> AxisOrder_enum
    [] k = "Bandwidth" -> Bandwidth_enum
    [] k = "BlockingRule" -> BlockingRule_enum
    [] k = "Face" -> Face_enum
    [] k = "FeatureEngineState" -> FeatureEngineState_enum
    [] k = "FeatureIoError" -> FeatureIoError_enum
    [] k = "GyroPowerMode" -> GyroPowerMode_enum
    [] k = "GyroRange" -> GyroRange_enum
    [] k = "IntPin" -> IntPin_enum
    [] k = "OrientationMode" -> OrientationMode_enum
    [] k = "OrientationPl" -> OrientationPl_enum
    [] k = "OutputDataRate" -> OutputDataRate_enum
    [] k = "OutputMode" -> OutputMode_enum
    [] k = "TapAxis" -> TapAxis_enum
    [] k = "TapMode" -> TapMode_enum

PackedTypes ==
  {"AccelConfig", "AltEnable", "AltStatus", "AnyNoMotionConfig",
   "FeatureEngineStatusReg", "AxisRemap", "FlatConfig", "FeatureIo1",
   "Features", "FeatureDataStatus", "FeatureEngineStatus", "OrientationConfig",
   "SigMotionConfig", "StepWord0", "TapConfig", "TiltConfig", "FifoConfig",
   "FifoWatermark", "FifoFillLevel", "FifoCtrl", "GyroConfig", "IntMap",
   "FeatureEventExt", "IntConfReg", "IoIntCtrl", "IntStatus", "Status",
   "ChipId", "SaturationFlags", "AccelOffsetGain", "GyroOffsetGain",
   "XYZ"}

LayoutOf(ty) ==
  CASE ty = "AccelConfig" -> AccelConfig_layout
    [] ty = "AltEnable" -> AltEnable_layout
    [] ty = "AltStatus" -> AltStatus_layout
    [] ty = "AnyNoMotionConfig" -> AnyNoMotionConfig_layout
    [] ty = "FeatureEngineStatusReg" -> FeatureEngineStatusReg_layout
    [] ty = "AxisRemap" -> AxisRemap_layout
    [] ty = "FlatConfig" -> FlatConfig_layout
    [] ty = "FeatureIo1" -> FeatureIo1_layout
    [] ty = "Features" -> Features_layout
    [] ty = "FeatureDataStatus" -> FeatureDataStatus_layout
    [] ty = "FeatureEngineStatus" -> FeatureEngineStatus_layout
    [] ty = "OrientationConfig" -> OrientationConfig_layout
    [] ty = "SigMotionConfig" -> SigMotionConfig_layout
    [] ty = "StepWord0" -> StepWord0_layout
    [] ty = "TapConfig" -> TapConfig_layout
    [] ty = "TiltConfig" -> TiltConfig_layout
    [] ty = "FifoConfig" -> FifoConfig_layout
    [] ty = "FifoWatermark" -> FifoWatermark_layout
    [] ty = "FifoFillLevel" -> FifoFillLevel_layout
    [] ty = "FifoCtrl" -> FifoCtrl_layout
    [] ty = "GyroConfig" -> GyroConfig_layout
    [] ty = "IntMap" -> IntMap_layout
    [] ty = "FeatureEventExt" -> FeatureEventExt_layout
    [] ty = "IntConfReg" -> IntConfReg_layout
    [] ty = "IoIntCtrl" -> IoIntCtrl_layout
    [] ty = "IntStatus" -> IntStatus_layout
    [] ty = "Status" -> Status_layout
    [] ty = "ChipId" -> ChipId_layout
    [] ty = "SaturationFlags" -> SaturationFlags_layout
    [] ty = "AccelOffsetGain" -> AccelOffsetGain_layout
    [] ty = "GyroOffsetGain" -> GyroOffsetGain_layout
    [] ty = "XYZ" -> XYZ_layout

Plain == {"skip", "bool", "uint", "int"}

\* the first bit of field i
RECURSIVE Offset(_, _)
Offset(fields, i) == IF i = 1 THEN 0 ELSE Offset(fields, i - 1) + fields[i - 1].w

TotalBits(fields) == Offset(fields, Len(fields) + 1)

\* bit i of the little-endian value held by the bytes b
BitOfBytes(b, i) == Bit(b[(i \div 8) + 1], i % 8)

\* the w bits from bit off on, as a number
RECURSIVE RawAt(_, _, _)
RawAt(b, off, w) ==
  IF w = 0 THEN 0 ELSE BitOfBytes(b, off) + 2 * RawAt(b, off + 1, w - 1)

\* the raw code of every field of the layout in the bytes b
Unpack(ly, b) ==
  [i \in 1..Len(ly.fields) |-> RawAt(b, Offset(ly.fields, i), ly.fields[i].w)]

\* bit i of the value that holds the raw codes at their fields
PackBit(ly, raws, i) ==
  IF \E j \in 1..Len(ly.fields) :
       /\ ly.fields[j].k # "skip"
       /\ Offset(ly.fields, j) <= i /\ i < Offset(ly.fields, j) + ly.fields[j].w
       /\ Bit(raws[j], i - Offset(ly.fields, j)) = 1
    THEN 1 ELSE 0

Pack(ly, raws) ==
  [j \in 1..ly.bytes |->
     PackBit(ly, raws, 8 * j - 8) + 2 * PackBit(ly, raws, 8 * j - 7)
     + 4 * PackBit(ly, raws, 8 * j - 6) + 8 * PackBit(ly, raws, 8 * j - 5)
     + 16 * PackBit(ly, raws, 8 * j - 4) + 32 * PackBit(ly, raws, 8 * j - 3)
     + 64 * PackBit(ly, raws, 8 * j - 2) + 128 * PackBit(ly, raws, 8 * j - 1)]

\* a raw code has a value of the field's type
FieldOk(fld, raw) == fld.k \in Plain \/ raw \in DOMAIN Enum(fld.k).try

\* the value of a field from its raw code (0 stands in a skip)
FromRaw(fld, raw) ==
  CASE fld.k = "skip" -> 0
    [] fld.k = "bool" -> raw = 1
    [] fld.k = "uint" -> raw
    [] fld.k = "int" -> IF raw >= 2 ^ (fld.w - 1) THEN raw - 2 ^ fld.w ELSE raw
    [] OTHER -> Enum(fld.k).try[raw]

\* the raw code of a field's value
ToRaw(fld, x) ==
  CASE fld.k = "skip" -> 0
    [] fld.k = "bool" -> IF x THEN 1 ELSE 0
    [] fld.k = "uint" -> x
    [] fld.k = "int" -> IF x < 0 THEN x + 2 ^ fld.w ELSE x
    [] OTHER -> Enum(fld.k).disc[x]

\* TryFrom<[u8; N]> for the type: the value, as the sequence of its fields'
\* values in declaration order, or an error when an enumerated field holds a
\* code without variant
try_from(ty, b) ==
  LET ly == LayoutOf(ty)
      raws == Unpack(ly, b) IN
  IF \A i \in 1..Len(ly.fields) : FieldOk(ly.fields[i], raws[i])
    THEN [ok |-> TRUE, v |-> [i \in 1..Len(ly.fields) |-> FromRaw(ly.fields[i], raws[i])]]
    ELSE [ok |-> FALSE, v |-> <<>>]

\* TryInto<[u8; N]> for a value whose integers fit their fields
try_into(ty, v) ==
  LET ly == LayoutOf(ty) IN
  Pack(ly, [i \in 1..Len(ly.fields) |-> ToRaw(ly.fields[i], v[i])])

(***************************************************************************)
(* The operations a caller can start, with their arguments.                *)
(***************************************************************************)
ByteVals == {0, 1, 255}
\* payload lengths around the limits of the 32-byte transaction buffer
LongLens == {30, 31, 32}
ShortLens == 0..MaxLen

MkOp(name, reg, addr, data, n, bits, cfg) ==
  [name |-> name, reg |-> reg, addr |-> addr, data |-> data, n |-> n,
   bits |-> bits, cfg |-> cfg]

\* rw.rs write_bytes / read_bytes called on a register
TransportRegs == {RegChipId, RegCmd}
TransportPayloads ==
  UNION {SeqsOf(ByteVals, n) : n \in ShortLens} \cup {Pattern(n) : n \in LongLens}
TransportOps ==
  {MkOp("write_bytes", r, 0, d, 0, <<>>, <<>>) :
     r \in TransportRegs, d \in TransportPayloads}
  \cup {MkOp("read_bytes", r, 0, <<>>, n, <<>>, <<>>) :
     r \in TransportRegs, n \in ShortLens \cup LongLens}

\* selftest.rs, calib.rs: raw blocks written to / read from feature memory
RawWriteAddr ==
  [set_self_test_select |-> AddrStSelect, set_gyro_sc_select |-> AddrGyroScSelect,
   set_gyro_sc_st_conf |-> AddrGyroScStConf, set_alt_auto_config |-> AddrAltAutoConfig]
RawReadAddr ==
  [get_self_test_select |-> AddrStSelect, get_gyro_sc_select |-> AddrGyroScSelect,
   get_gyro_sc_st_conf |-> AddrGyroScStConf,
   get_gyro_sc_coefficients |-> AddrGyroScStCoefficients,
   get_alt_auto_config |-> AddrAltAutoConfig]
RawWriteOps == DOMAIN RawWriteAddr
RawReadOps == DOMAIN RawReadAddr
FeatureRawOps ==
  {MkOp(nm, 0, RawWriteAddr[nm], Pattern(n), 0, <<>>, <<>>) :
     nm \in RawWriteOps, n \in ShortLens \cup LongLens}
  \cup {MkOp(nm, 0, RawReadAddr[nm], <<>>, n, <<>>, <<>>) :
     nm \in RawReadOps, n \in ShortLens \cup LongLens}

\* feature/*.rs enable_<feature>: the feature address of the configuration
\* block, the length of its byte image, and the Features flags the operation
\* assigns (bit numbers of feature/mod.rs Features)
EnableAddr ==
  [enable_any_motion |-> AddrAnyMotion, enable_no_motion |-> AddrNoMotion,
   enable_flat |-> AddrFlat, enable_orientation |-> AddrOrient,
   enable_sig_motion |-> AddrSigMotion, enable_tap |-> AddrTap,
   enable_tilt |-> AddrTilt]
EnableLen ==
  [enable_any_motion |-> 6, enable_no_motion |-> 6, enable_flat |-> 4,
   enable_orientation |-> 4, enable_sig_motion |-> 6, enable_tap |-> 6,
   enable_tilt |-> 4]
EnableFlags ==
  [enable_any_motion |-> <<3, 4, 5>>, enable_no_motion |-> <<0, 1, 2>>,
   enable_flat |-> <<6>>, enable_orientation |-> <<7>>,
   enable_sig_motion |-> <<10>>, enable_tap |-> <<12, 13, 14>>,
   enable_tilt |-> <<11>>]
EnableOpNames == DOMAIN EnableAddr
\* the x/y/z (single/double/triple) arguments of the three-flag operations
FlagChoices == {<<1, 1, 1>>, <<1, 0, 0>>, <<0, 1, 0>>}
EnableArgs(nm) ==
  IF Len(EnableFlags[nm]) = 1 THEN {<<<<EnableFlags[nm][1], 1>>>>}
  ELSE {[i \in 1..3 |-> <<EnableFlags[nm][i], c[i]>>] : c \in FlagChoices}
EnableOps ==
  UNION {{MkOp(nm, 0, EnableAddr[nm], Pattern(EnableLen[nm]), 0, b, <<>>) :
            b \in EnableArgs(nm)} : nm \in EnableOpNames}

\* accel.rs set_accel_conf / gyro.rs set_gyro_conf; the first configuration
\* of each is the type's Default
AccelConfigs == {<<12, 0, 0, 0, 4>>, <<8, 3, 1, 2, 7>>}
GyroConfigs == {<<8, 4, 1, 0, 4>>, <<12, 0, 0, 6, 3>>}
SensorConfOps ==
  {MkOp("set_accel_conf", RegAccConf, 0, <<>>, 0, <<>>, c) : c \in AccelConfigs}
  \cup {MkOp("set_gyro_conf", RegGyrConf, 0, <<>>, 0, <<>>, c) : c \in GyroConfigs}

\* feature/step.rs set_step_watermark(wm): the watermark is cfg[1]
StepWatermarks == {0, 700, 1023, 2000}

\* get_accel_data()
AccelOps == {MkOp("get_accel_data", RegAccDataX, 0, <<>>, 6, <<>>, <<>>)}

\* the three axis words the part answers with: 1 g at +-2g, 1 g at +-16g and
\* its negative; the extremes of i16 with zero; small values of both signs
AccelRawImages ==
  {to_le_bytes(v[1]) \o to_le_bytes(v[2]) \o to_le_bytes(v[3]) :
     v \in {<<16384, 2048, 63488>>, <<32767, 32768, 0>>, <<1, 65535, 49152>>}}
StepOps ==
  {MkOp("set_step_watermark", 0, AddrStepCnt, <<>>, 2, <<>>, <<wm>>) : wm \in StepWatermarks}

\* feature/mod.rs enable_feature_engine
EngineOps == {MkOp("enable_feature_engine", 0, 0, <<>>, 0, <<>>, <<>>)}

\* feature/axis_remap.rs set_axis_remap with AxisRemap::new(ZYX, true, false, true)
AxisRemaps == {<<5, 1, 0, 1>>}
AxisRemapOps ==
  {MkOp("set_axis_remap", 0, AddrAxisRemap, AxisRemap_encode(m), 0, <<>>, m) :
     m \in AxisRemaps}

\* rw.rs read::<N, T> behind the typed getters; cfg[1] names T
TypedReadReg ==
  [get_accel_conf |-> RegAccConf, get_gyro_conf |-> RegGyrConf, get_id |-> RegChipId]
TypedReadType ==
  [get_accel_conf |-> "AccelConfig", get_gyro_conf |-> "GyroConfig", get_id |-> "ChipId"]
TypedReadNames == DOMAIN TypedReadReg
TypedReadOps ==
  {MkOp(nm, TypedReadReg[nm], 0, <<>>, LayoutOf(TypedReadType[nm]).bytes, <<>>,
        <<TypedReadType[nm]>>) : nm \in TypedReadNames}

\* fifo.rs set_fifo_watermark(level_words), level_words: u16, held in n
FIFO_WATERMARK_BITS == 10
WatermarkLevels == {0, 1, 1023, 1024, 2000, 65535}
FifoOps ==
  {MkOp("set_fifo_watermark", RegFifoWatermark, 0, <<>>, l, <<>>, <<>>) :
     l \in WatermarkLevels}

\* fifo.rs read_fifo_bytes(out) and read_fifo_words(out): out.len() is held in n
FifoBufLens == {0, 1, 15, 16, 30, 31, 1024}
FifoReadOps ==
  {MkOp(nm, RegFifoFillLevel, 0, <<>>, l, <<>>, <<>>) :
     nm \in {"read_fifo_bytes", "read_fifo_words"}, l \in FifoBufLens}

\* lib.rs soft_reset()
ResetOps == {MkOp("soft_reset", RegCmd, 0, <<>>, 0, <<>>, <<>>)}

Ops == TransportOps \cup FeatureRawOps \cup EnableOps \cup SensorConfOps
       \cup EngineOps \cup AxisRemapOps \cup TypedReadOps \cup FifoOps
       \cup FifoReadOps \cup ResetOps \cup StepOps \cup AccelOps

\* enable_<feature> in a wrong order: the mask is read and written first
enable_steps_maskfirst == <<"io0_read", "io0_write", "wfb_wait">>

\* the statements of enable_<feature>: set_<feature>_conf, then
\* get_enabled_features, then set_enabled_features (named by their first step)
enable_steps == <<"wfb_wait", "io0_read", "io0_write">>

\* where each operation starts
Entry(o) ==
  CASE o.name = "write_bytes" -> "write_bytes"
    [] o.name = "read_bytes" -> "read_bytes"
    [] o.name \in RawWriteOps \cup {"set_axis_remap"} -> "wfb_wait"
    [] o.name \in EnableOpNames -> enable_steps[1]
    [] o.name \in RawReadOps \cup {"set_step_watermark"} -> "rfb_check"
    [] o.name \in {"set_accel_conf", "set_gyro_conf"} -> "conf_write"
    [] o.name = "enable_feature_engine" -> "io2"
    [] o.name \in TypedReadNames -> "read"
    [] o.name = "set_fifo_watermark" -> "set_fifo_watermark"
    [] o.name \in {"read_fifo_bytes", "read_fifo_words"} -> "fifo_level"
    [] o.name = "soft_reset" -> "soft_reset"
    [] o.name = "get_accel_data" -> "accel_raw"

(***************************************************************************)
(* What the device may answer.                                             *)
(***************************************************************************)
\* the two framing bytes in front of the payload of a read
DummyFrame == <<255, 255>>
Frame(payload) == DummyFrame \o payload

\* every frame for a short read, one frame for a long one
ReadFrames(n) == IF n \in ShortLens THEN SeqsOf(ByteVals, n + DUMMY_BYTES)
                 ELSE {Pattern(n + DUMMY_BYTES)}

\* FIFO_FILL_LEVEL: empty, one word, 10, 15 and 16 words, full, and 10 words
\* with the undeclared bits 11..15 set
FillImages == {to_le_bytes(x) : x \in {0, 1, 10, 15, 16, 2047, 63498}}

\* FEATURE_DATA_STATUS: idle, out-of-bound, ready, both
FeatureDataStatusVals == {0, 1, 2, 3}
\* STATUS: nothing ready, gyro, accel, all three sensors
StatusVals == {0, 64, 128, 224}
\* FEATURE_IO1: Inactive, Activated, the codes without variant (2, 4, 7),
\* NoError, Activated with engine_state and flags set
FeatureIo1Vals == {0, 1, 2, 4, 5, 7, 6385}
\* FEATURE_ENGINE_STATUS: idle, bit 10, every bit
FeatureEngineStatusVals == {0, 1024, 65535}
\* FEATURE_IO0: nothing enabled, all 15 flags, a mix with the undeclared bit 15
FeatureIo0Vals == {0, 32767, 35409}

\* the raw codes the device may put into a field: every code of a narrow
\* field, the ends and the middle of a wide one
RawCodes(fld) ==
  IF fld.w <= 4 THEN 0..(2 ^ fld.w - 1)
  ELSE {0, 1, 2 ^ (fld.w - 1), 2 ^ fld.w - 1}

\* the smallest and the largest code a field's type has a value for
LoCode(fld) ==
  IF fld.k \in Plain THEN 0
  ELSE CHOOSE c \in DOMAIN Enum(fld.k).try : \A d \in DOMAIN Enum(fld.k).try : c <= d
HiCode(fld) ==
  IF fld.k \in Plain THEN 2 ^ fld.w - 1
  ELSE CHOOSE c \in DOMAIN Enum(fld.k).try : \A d \in DOMAIN Enum(fld.k).try : c >= d

\* the bytes that hold the raw codes, the skipped bits included
RawImage(ly, raws) ==
  Pack([ly EXCEPT !.fields = [i \in DOMAIN ly.fields |->
                                 [ly.fields[i] EXCEPT !.k = "uint"]]], raws)

\* the bytes b with every bit after the last declared field set
WithTrailing(ly, b) ==
  LET bit(i) == IF i >= TotalBits(ly.fields) THEN 1 ELSE BitOfBytes(b, i) IN
  [j \in 1..ly.bytes |->
     bit(8 * j - 8) + 2 * bit(8 * j - 7) + 4 * bit(8 * j - 6) + 8 * bit(8 * j - 5)
     + 16 * bit(8 * j - 4) + 32 * bit(8 * j - 3) + 64 * bit(8 * j - 2)
     + 128 * bit(8 * j - 1)]

\* register contents: one field (or skip) takes each of its raw codes while
\* the others hold their smallest valid code, with and without the
\* undeclared bits set; the chip id of the part
DeviceImages(ty) ==
  LET ly == LayoutOf(ty)
      base == [i \in DOMAIN ly.fields |-> LoCode(ly.fields[i])]
      one == UNION {{RawImage(ly, [base EXCEPT ![i] = c]) : c \in RawCodes(ly.fields[i])} :
                      i \in DOMAIN ly.fields}
  IN one \cup {WithTrailing(ly, b) : b \in one}
         \cup (IF ty = "ChipId" THEN {<<67>>} ELSE {})

\* the payload of the last read of the poll loop in progress, <<>> before the
\* first one
LastPolled(reg) ==
  LET n == Len(trace) IN
  IF n >= 1 /\ trace[n].k = "write_read" /\ trace[n].out = <<reg>>
    THEN SubSeq(trace[n].in, DUMMY_BYTES + 1, Len(trace[n].in))
  ELSE IF n >= 2 /\ trace[n].k = "delay" /\ trace[n - 1].k = "write_read"
          /\ trace[n - 1].out = <<reg>>
    THEN SubSeq(trace[n - 1].in, DUMMY_BYTES + 1, Len(trace[n - 1].in))
  ELSE <<>>

\* the device changes a polled register at most MaxFlips times per poll loop,
\* and does so within the first MaxFlipAt polls or once the budget of the
\* loop is used up
MayAnswer(reg, payload, budget) ==
  \/ LastPolled(reg) \in {<<>>, payload}
  \/ flips < MaxFlips /\ (tries <= MaxFlipAt \/ tries >= budget)
FlipsAfter(reg, payload) ==
  IF LastPolled(reg) \in {<<>>, payload} THEN flips ELSE flips + 1

(***************************************************************************)
(* The state machine.                                                      *)
(***************************************************************************)
NoOp == MkOp("none", 0, 0, <<>>, 0, <<>>, <<>>)

Init ==
  /\ debug \in BOOLEAN
  /\ op = NoOp
  /\ pc = "idle"
  /\ tries = 0
  /\ trace = <<>>
  /\ buf = <<>>
  /\ f = 0
  /\ result = "none"
  /\ flips = 0
  /\ dequeue = <<>>
  /\ yielded = <<>>
  /\ handles = <<>>
  /\ wire = <<>>

\* a caller starts one of the operations ops on the idle handle
CallOf(ops) ==
  /\ pc = "idle"
  /\ \E o \in ops :
       /\ op' = o
       /\ pc' = Entry(o)
  /\ tries' = 0
  /\ trace' = <<>>
  /\ buf' = <<>>
  /\ f' = 0
  /\ result' = "running"
  /\ flips' = 0
  /\ UNCHANGED <<handles, wire, debug, dequeue, yielded>>

Call == CallOf(Ops)

\* the caller has taken the result; the handle is free for the next operation
Return ==
  /\ pc = "done"
  /\ op' = NoOp
  /\ pc' = "idle"
  /\ tries' = 0
  /\ trace' = <<>>
  /\ buf' = <<>>
  /\ f' = 0
  /\ result' = "none"
  /\ flips' = 0
  /\ UNCHANGED <<handles, wire, debug, dequeue, yielded>>

Advance(ev, npc, nres, ntries, nbuf, nf, nflips) ==
  /\ trace' = trace \o ev
  /\ pc' = npc
  /\ result' = nres
  /\ tries' = ntries
  /\ buf' = nbuf
  /\ f' = nf
  /\ flips' = nflips
  /\ UNCHANGED <<handles, wire, debug, op, dequeue, yielded>>

\* a failure path that clears the enable mask before it returns the error
Fail_rollback(ev, e) ==
  Advance(ev \o <<I2cWrite(<<RegFeatureIo0, 0, 0>>, TRUE)>>, "done", e, tries, buf, f, 0)

\* the operation returns Err(e) (or panics) after observing ev
Fail(ev, e) == Advance(ev, "done", e, tries, buf, f, 0)

\* the operation goes on at `then`, or returns Ok(..) when then = "return"
Goto(ev, then, nbuf, nf) ==
  IF then = "return" THEN Advance(ev, "done", "Ok", 0, nbuf, nf, 0)
  ELSE Advance(ev, then, "running", 0, nbuf, nf, 0)

\* a transport write whose failure is dropped: the operation goes on
WriteThen_ignore(r, then) == Goto(r.ev, then, buf, f)

\* `?` after a transport write whose outcome is r
WriteThen(r, then) ==
  IF r.res = "Ok" THEN Goto(r.ev, then, buf, f) ELSE Fail(r.ev, r.res)

\* rw.rs write_bytes called directly
transport_write ==
  /\ pc = "write_bytes"
  /\ \E ok \in BOOLEAN : WriteThen(write_bytes(op.reg, op.data, ok), "return")

\* rw.rs read_bytes called directly
transport_read ==
  /\ pc = "read_bytes"
  /\ \E ok \in BOOLEAN, fr \in ReadFrames(op.n) :
       LET r == read_bytes(op.reg, op.n, ok, fr) IN
       IF r.res = "Ok" THEN Goto(r.ev, "return", r.buf, f) ELSE Fail(r.ev, r.res)

(***************************************************************************)
(* Indirect feature-memory access (feature/mod.rs).                        *)
(***************************************************************************)
\* wait_feature_data_ready that takes any status without out-of-bound for ready
wait_feature_data_ready_step_noready(status, t) ==
  IF status.out_of_bound_err THEN "Data" ELSE "Ok"

\* wait_feature_data_ready that looks at data_tx_ready before out_of_bound_err
wait_feature_data_ready_step_readyfirst(status, t) ==
  IF status.data_tx_ready THEN "Ok"
  ELSE IF status.out_of_bound_err THEN "Data"
  ELSE IF t > FEATURE_READY_TRIES THEN "Data"
  ELSE "Retry"

\* one iteration of the loop of wait_feature_data_ready, after the status read
wait_feature_data_ready_step(status, t) ==
  IF status.out_of_bound_err THEN "Data"
  ELSE IF status.data_tx_ready THEN "Ok"
  ELSE IF t > FEATURE_READY_TRIES THEN "Data"
  ELSE "Retry"

wait_feature_data_ready(then) ==
  \E ok \in BOOLEAN, v \in FeatureDataStatusVals :
    /\ MayAnswer(RegFeatureDataStatus, to_le_bytes(v), FEATURE_READY_TRIES)
    /\ LET r == read_bytes(RegFeatureDataStatus, 2, ok, Frame(to_le_bytes(v))) IN
       IF r.res # "Ok" THEN Fail(r.ev, r.res)
       ELSE LET d == wait_feature_data_ready_step(FeatureDataStatus_decode(r.buf), tries)
            IN CASE d = "Retry" ->
                      Advance(r.ev \o <<DelayMs(FEATURE_READY_DELAY_MS)>>, pc, "running",
                              tries + 1, buf, f,
                              FlipsAfter(RegFeatureDataStatus, to_le_bytes(v)))
                 [] d = "Ok" -> Goto(r.ev, then, buf, f)
                 [] OTHER -> Fail(r.ev, d)

EnableAfter(at) ==
  LET i == CHOOSE j \in 1..Len(enable_steps) : enable_steps[j] = at IN
  IF i < Len(enable_steps) THEN enable_steps[i + 1] ELSE "return"

\* where the caller of read_feature_bytes goes on
AfterReadFeature == IF op.name = "set_step_watermark" THEN "step_word" ELSE "return"

\* the bytes write_feature_bytes is given: the caller's block, or the word
\* set_step_watermark encoded
FeaturePayload == IF op.name = "set_step_watermark" THEN buf ELSE op.data

\* where the caller of write_feature_bytes goes on
AfterWriteFeature ==
  CASE op.name \in EnableOpNames -> EnableAfter("wfb_wait")
    [] op.name = "set_axis_remap" -> "axis_cmd"
    [] OTHER -> "return"

write_feature_bytes ==
  \/ /\ pc = "wfb_wait"
     /\ wait_feature_data_ready("wfb_addr")
  \/ /\ pc = "wfb_addr"
     /\ \E ok \in BOOLEAN :
          WriteThen(write_bytes(RegFeatureDataAddr, <<op.addr, 0>>, ok), "wfb_tx")
  \/ /\ pc = "wfb_tx"
     /\ \E ok \in BOOLEAN :
          WriteThen(write_bytes(RegFeatureDataTx, FeaturePayload, ok), AfterWriteFeature)

read_feature_bytes ==
  \/ /\ pc = "rfb_check"
     /\ IF op.n % 2 # 0 THEN Fail(<<>>, "Data")
        ELSE Advance(<<>>, "rfb_wait", "running", 0, buf, f, 0)
  \/ /\ pc = "rfb_wait"
     /\ wait_feature_data_ready("rfb_addr")
  \/ /\ pc = "rfb_addr"
     /\ \E ok \in BOOLEAN :
          WriteThen(write_bytes(RegFeatureDataAddr, <<op.addr, 0>>, ok), "rfb_rx")
  \/ /\ pc = "rfb_rx"
     /\ \E ok \in BOOLEAN :
          LET r == read_bytes(RegFeatureDataTx, op.n, ok, Frame(Pattern(op.n))) IN
          IF r.res = "Ok" THEN Goto(r.ev, AfterReadFeature, r.buf, f) ELSE Fail(r.ev, r.res)

(***************************************************************************)
(* set_step_watermark (feature/step.rs): read_feature of word 0 of the     *)
(* step counter, the watermark assigned, write_feature of the word.        *)
(***************************************************************************)
\* a write of the word through the pointer the read has left
step_write_entry_samepointer == "wfb_tx"

\* write_feature(FeatureAddr::StepCnt, w0) starts with the ready poll
step_write_entry == "wfb_wait"

\* `w0.watermark = min(wm, (1 << 10) - 1)` on the decoded word, and its bytes
step_word(b, wm) ==
  LET w0 == try_from("StepWord0", b).v IN
  try_into("StepWord0", <<IF wm < 1023 THEN wm ELSE 1023, w0[2]>>)

set_step_watermark ==
  /\ pc = "step_word"
  /\ Advance(<<>>, step_write_entry, "running", 0, step_word(buf, op.cfg[1]), f, 0)

\* the unit of the scaled readings held in f: 2^-14 g.  Every factor of
\* AccelRange::multiplier is a power of two and |raw| <= 2^15 has at most 16
\* significant bits, so the f32 product `raw as f32 * range` is exact: it is
\* raw * multiplier(range) units
G_UNITS == 16384

multiplier_g16_as_g8(range) ==
  CASE range = "G2" -> 1 [] range = "G4" -> 2 [] range = "G8" -> 4 [] range = "G16" -> 4

\* accel.rs AccelRange::multiplier: 1/16384, 1/8192, 1/4096, 1/2048 g per LSB,
\* in units of 2^-14 g
multiplier(range) ==
  CASE range = "G2" -> 1 [] range = "G4" -> 2 [] range = "G8" -> 4 [] range = "G16" -> 8

\* accel.rs get_accel_data: get_raw_accel_data (a read of XYZ at ACC_DATA_X),
\* then get_accel_conf (a read of AccelConfig at ACC_CONF), then each axis
\* times the multiplier of the range read
get_accel_data ==
  \/ /\ pc = "accel_raw"
     /\ \E ok \in BOOLEAN, b \in AccelRawImages :
          LET r == read_bytes(RegAccDataX, LayoutOf("XYZ").bytes, ok, Frame(b)) IN
          IF r.res # "Ok" THEN Fail(r.ev, r.res)
          ELSE Goto(r.ev, "accel_range", r.buf, f)
  \/ /\ pc = "accel_range"
     /\ \E ok \in BOOLEAN, b \in DeviceImages("AccelConfig") :
          LET r == read_bytes(RegAccConf, LayoutOf("AccelConfig").bytes, ok, Frame(b))
              accel_data == try_from("XYZ", buf).v IN
          IF r.res # "Ok" THEN Fail(r.ev, r.res)
          ELSE LET d == try_from("AccelConfig", r.buf) IN
               IF ~d.ok THEN Fail(r.ev, "Data")
               ELSE LET range == multiplier(d.v[2]) IN
                    Goto(r.ev, "return", buf,
                         <<accel_data[1] * range, accel_data[2] * range,
                           accel_data[3] * range>>)

(***************************************************************************)
(* enable_<feature> (feature/*.rs): after the configuration block, the     *)
(* read-modify-write of FEATURE_IO0 and the acknowledge.                   *)
(***************************************************************************)
\* f.<flag> = <value> for each flag the operation assigns
RECURSIVE AssignFlags(_, _)
AssignFlags(v, bits) ==
  IF bits = <<>> THEN v
  ELSE AssignFlags(WithBit(v, bits[1][1], bits[1][2]), Tail(bits))

get_enabled_features ==
  /\ pc = "io0_read"
  /\ \E ok \in BOOLEAN, v \in FeatureIo0Vals :
       LET r == read_bytes(RegFeatureIo0, 2, ok, Frame(to_le_bytes(v))) IN
       IF r.res = "Ok"
         THEN Goto(r.ev, EnableAfter("io0_read"), r.buf,
                   AssignFlags(Features_decode(r.buf), op.bits))
         ELSE Fail(r.ev, r.res)

set_enabled_features ==
  \/ /\ pc = "io0_write"
     /\ \E ok \in BOOLEAN :
          WriteThen(write_bytes(RegFeatureIo0, Features_encode(f), ok), "io0_ack")
  \/ /\ pc = "io0_ack"
     /\ \E ok \in BOOLEAN :
          WriteThen(write_u16(RegFeatureIoStatus, 1, ok), EnableAfter("io0_write"))

(***************************************************************************)
(* set_accel_conf / set_gyro_conf and the data-ready poll (lib.rs).        *)
(***************************************************************************)
Sensor == IF op.name = "set_accel_conf" THEN "Accel" ELSE "Gyro"

\* lib.rs is_ready: the STATUS bit of the sensor
is_ready(sensor, st) ==
  CASE sensor = "Accel" -> st.drdy_acc
    [] sensor = "Gyro" -> st.drdy_gyr
    [] OTHER -> st.drdy_temp

\* wait_for that reports its timeout as Error::Init
wait_for_step_init(ready, retries) ==
  IF ready THEN "Ok"
  ELSE IF retries > WAIT_FOR_RETRIES THEN "Init"
  ELSE "Retry"

\* wait_for without a budget: it polls until the sensor is ready
wait_for_step_forever(ready, retries) == IF ready THEN "Ok" ELSE "Retry"

\* one iteration of the loop of wait_for, after is_ready returned `ready`
wait_for_step(ready, retries) ==
  IF ready THEN "Ok"
  ELSE IF retries > WAIT_FOR_RETRIES THEN "Data"
  ELSE "Retry"

set_sensor_conf ==
  /\ pc = "conf_write"
  /\ \E ok \in BOOLEAN :
       WriteThen(write_bytes(op.reg, SensorConfig_encode(op.cfg), ok), "wait_for")

wait_for ==
  /\ pc = "wait_for"
  /\ \E ok \in BOOLEAN, v \in StatusVals :
       /\ MayAnswer(RegStatus, <<v>>, WAIT_FOR_RETRIES)
       /\ LET r == read_bytes(RegStatus, 1, ok, Frame(<<v>>)) IN
          IF r.res # "Ok" THEN Fail(r.ev, r.res)
          ELSE LET d == wait_for_step(is_ready(Sensor, Status_decode(r.buf)), tries)
               IN CASE d = "Retry" ->
                         Advance(r.ev \o <<DelayMs(WAIT_FOR_DELAY_MS)>>, pc, "running",
                                 tries + 1, buf, f, FlipsAfter(RegStatus, <<v>>))
                    [] d = "Ok" -> Goto(r.ev, "return", buf, f)
                    [] OTHER -> Fail(r.ev, d)

\* an activation loop that polls on when FEATURE_IO1 does not decode
engine_poll_step_lenient(v, t) ==
  IF v.ok /\ v.error_status = FeatureIoError_Activated THEN "Ok"
  ELSE IF t + 1 > ENGINE_TRIES THEN "Init"
  ELSE "Retry"

\* an activation loop that takes every non-zero error_status for success
engine_poll_step_anystatus(v, t) ==
  IF ~v.ok THEN "Data"
  ELSE IF v.error_status # 0 THEN "Ok"
  ELSE IF t + 1 > ENGINE_TRIES THEN "Init"
  ELSE "Retry"

(***************************************************************************)
(* enable_feature_engine (feature/mod.rs).                                 *)
(***************************************************************************)
\* the activation poll reporting its timeout as a data error
engine_poll_step_data(v, t) ==
  IF ~v.ok THEN "Data"
  ELSE IF v.error_status = FeatureIoError_Activated THEN "Ok"
  ELSE IF t + 1 > ENGINE_TRIES THEN "Data"
  ELSE "Retry"

\* one iteration of the activation loop, after FEATURE_IO1 was read and
\* decoded to v: `tries += 1; if tries > 10 { return Err(Error::Init) }`
engine_poll_step(v, t) ==
  IF ~v.ok THEN "Data"
  ELSE IF v.error_status = FeatureIoError_Activated THEN "Ok"
  ELSE IF t + 1 > ENGINE_TRIES THEN "Init"
  ELSE "Retry"

enable_feature_engine ==
  \/ /\ pc = "io2"
     /\ \E ok \in BOOLEAN :
          WriteThen(write_bytes(RegFeatureIo2, <<44, 1>>, ok), "io_status")
  \/ /\ pc = "io_status"
     /\ \E ok \in BOOLEAN :
          WriteThen(write_bytes(RegFeatureIoStatus, <<1, 0>>, ok), "ctrl")
  \/ /\ pc = "ctrl"
     /\ \E ok \in BOOLEAN :
          WriteThen(write_bytes(RegFeatureCtrl, <<1, 0>>, ok), "engine_poll")
  \/ /\ pc = "engine_poll"
     /\ \E ok \in BOOLEAN, v \in FeatureIo1Vals :
          /\ MayAnswer(RegFeatureIo1, to_le_bytes(v), ENGINE_TRIES)
          /\ LET r == read_bytes(RegFeatureIo1, 2, ok, Frame(to_le_bytes(v)))
                 ev == <<Delay(ENGINE_DELAY_US)>> \o r.ev IN
             IF r.res # "Ok" THEN Fail(ev, r.res)
             ELSE LET d == engine_poll_step(FeatureIo1_decode(r.buf), tries)
                  IN CASE d = "Retry" ->
                            Advance(ev, pc, "running", tries + 1, buf, f,
                                    FlipsAfter(RegFeatureIo1, to_le_bytes(v)))
                       [] d = "Ok" -> Goto(ev, "return", buf, f)
                       [] OTHER -> Fail(ev, d)

(***************************************************************************)
(* set_axis_remap (feature/axis_remap.rs).                                 *)
(***************************************************************************)
\* one iteration of the loop of wait_axis_map_complete, after the status was
\* read and decoded to v; "Timeout" is Err(Error::Data) after the delay
wait_axis_map_complete_step(v, t) ==
  IF v.axis_map_complete THEN "Ok"
  ELSE IF t + 1 > AXIS_MAP_TRIES THEN "Timeout"
  ELSE "Retry"

set_axis_remap ==
  /\ pc = "axis_cmd"
  /\ \E ok \in BOOLEAN : WriteThen(write_u16(RegCmd, CmdAxisMapUpdate, ok), "axis_wait")

wait_axis_map_complete ==
  /\ pc = "axis_wait"
  /\ \E ok \in BOOLEAN, v \in FeatureEngineStatusVals :
       /\ MayAnswer(RegFeatureEngineStatus, to_le_bytes(v), AXIS_MAP_TRIES)
       /\ LET r == read_bytes(RegFeatureEngineStatus, 2, ok, Frame(to_le_bytes(v))) IN
          IF r.res # "Ok" THEN Fail(r.ev, r.res)
          ELSE LET d == wait_axis_map_complete_step(
                          FeatureEngineStatusReg_decode(r.buf), tries)
                   ev == r.ev \o <<DelayMs(AXIS_MAP_DELAY_MS)>>
               IN CASE d = "Retry" ->
                         Advance(ev, pc, "running", tries + 1, buf, f,
                                 FlipsAfter(RegFeatureEngineStatus, to_le_bytes(v)))
                    [] d = "Ok" -> Goto(r.ev, "return", buf, f)
                    [] OTHER -> Fail(ev, "Data")

(***************************************************************************)
(* Typed register access (rw.rs read / write) and its callers.             *)
(***************************************************************************)
\* get_id that compares the id with the chip id of the part
get_id_result_checked(id) ==
  IF id = 67 THEN [res |-> "Ok", v |-> id] ELSE [res |-> "InvalidChipId", v |-> id]

\* lib.rs get_id: Ok(r.id)
get_id_result(id) == [res |-> "Ok", v |-> id]

\* rw.rs read::<N, T>: read_bytes, then TryFrom with its error mapped to
\* Error::Data; get_accel_conf and get_gyro_conf return the value, get_id its id
read ==
  /\ pc = "read"
  /\ \E ok \in BOOLEAN, b \in DeviceImages(op.cfg[1]) :
       LET r == read_bytes(op.reg, op.n, ok, Frame(b)) IN
       IF r.res # "Ok" THEN Fail(r.ev, r.res)
       ELSE LET d == try_from(op.cfg[1], r.buf) IN
            IF ~d.ok THEN Fail(r.ev, "Data")
            ELSE IF op.name = "get_id"
              THEN LET g == get_id_result(d.v[1]) IN
                   IF g.res = "Ok" THEN Goto(r.ev, "return", r.buf, g.v)
                   ELSE Fail(r.ev, g.res)
            ELSE Goto(r.ev, "return", r.buf, d.v)

\* a watermark that wraps into the 10 bits of the field
watermark_of_wrapped(level) == level % (2 ^ FIFO_WATERMARK_BITS)

\* fifo.rs set_fifo_watermark: core::cmp::min(level_words, (1u16 << 10) - 1)
watermark_of(level) ==
  IF level < 2 ^ FIFO_WATERMARK_BITS - 1 THEN level ELSE 2 ^ FIFO_WATERMARK_BITS - 1

\* fifo.rs set_fifo_watermark: rw.rs write of FifoWatermark { watermark }
set_fifo_watermark ==
  /\ pc = "set_fifo_watermark"
  /\ \E ok \in BOOLEAN :
       LET b == try_into("FifoWatermark", <<watermark_of(op.n)>>) IN
       WriteThen(write_bytes(op.reg, b, ok), "return")

\* fifo.rs read_fifo_words: the bytes asked of read_fifo_bytes are
\* min(out.len() * 2, tmp.len()); read_fifo_bytes is asked out.len() bytes
fifo_request(o) ==
  IF o.name = "read_fifo_words"
    THEN (IF 2 * o.n < FIFO_TMP_SIZE THEN 2 * o.n ELSE FIFO_TMP_SIZE)
    ELSE o.n

\* fifo.rs read_fifo_words: out[w] = u16::from_le_bytes([tmp[i], tmp[i + 1]])
\* while i + 1 < nbytes && w < out.len(); the words written are the result
fifo_words(b, cap) ==
  LET w == IF Len(b) \div 2 < cap THEN Len(b) \div 2 ELSE cap IN
  [k \in 1..w |-> b[2 * k - 1] + 256 * b[2 * k]]

\* what the caller gets: Ok(n) of read_fifo_bytes, out[0..w] of read_fifo_words
fifo_result(o, b) ==
  IF o.name = "read_fifo_words" THEN fifo_words(b, o.n) ELSE Len(b)

\* fifo.rs read_fifo_bytes (on its own or inside read_fifo_words): the fill
\* level is read, n = min(out.len(), 2 * fill), then n bytes of FIFO_DATA
read_fifo_bytes ==
  \/ /\ pc = "fifo_level"
     /\ IF fifo_request(op) = 0 THEN Goto(<<>>, "return", <<>>, fifo_result(op, <<>>))
        ELSE \E ok \in BOOLEAN, img \in FillImages :
          LET r == read_bytes(op.reg, 2, ok, Frame(img)) IN
          IF r.res # "Ok" THEN Fail(r.ev, r.res)
          ELSE LET available == 2 * try_from("FifoFillLevel", r.buf).v[1]
                   n == IF fifo_request(op) < available THEN fifo_request(op)
                        ELSE available IN
               IF n = 0 THEN Goto(r.ev, "return", <<>>, fifo_result(op, <<>>))
               ELSE Goto(r.ev, "fifo_data", <<>>, n)
  \/ /\ pc = "fifo_data"
     /\ \E ok \in BOOLEAN, frame \in ReadFrames(f) :
          LET r == read_bytes(RegFifoData, f, ok, frame) IN
          IF r.res # "Ok" THEN Fail(r.ev, r.res)
          ELSE Goto(r.ev, "return", r.buf, fifo_result(op, r.buf))

\* soft_reset without its wait
soft_reset_wait_none == <<>>

\* lib.rs soft_reset: self.delay.delay_ms(SOFT_RESET_DELAY as u32)
soft_reset_wait == <<DelayMs(SOFT_RESET_DELAY)>>

\* lib.rs soft_reset: write_u16(Reg::Cmd, Command::SoftReset), then the wait
soft_reset ==
  /\ pc = "soft_reset"
  /\ \E ok \in BOOLEAN :
       LET r == write_u16(op.reg, CmdSoftReset, ok) IN
       IF r.res # "Ok" THEN Fail(r.ev, r.res)
       ELSE Goto(r.ev \o soft_reset_wait, "return", buf, f)

Next ==
  \/ Call
  \/ Return
  \/ transport_write
  \/ transport_read
  \/ write_feature_bytes
  \/ read_feature_bytes
  \/ get_enabled_features
  \/ set_enabled_features
  \/ set_sensor_conf
  \/ wait_for
  \/ enable_feature_engine
  \/ set_axis_remap
  \/ wait_axis_map_complete
  \/ read
  \/ set_fifo_watermark
  \/ read_fifo_bytes
  \/ soft_reset
  \/ set_step_watermark
  \/ get_accel_data

Spec == Init /\ [][Next]_vars

\* the operations that hold a readiness poll loop
PollOps == FeatureRawOps \cup EnableOps \cup SensorConfOps \cup EngineOps
           \cup AxisRemapOps

PollCall == CallOf(PollOps)

PollNext ==
  \/ PollCall
  \/ Return
  \/ write_feature_bytes
  \/ read_feature_bytes
  \/ get_enabled_features
  \/ set_enabled_features
  \/ set_sensor_conf
  \/ wait_for
  \/ enable_feature_engine
  \/ set_axis_remap
  \/ wait_axis_map_complete

\* every call of the bus and of the delay provider returns, so a started
\* operation always takes its next step
LiveSpec == Init /\ [][PollNext]_vars /\ WF_vars(PollNext)

(***************************************************************************)
(* The conversions on their own: a value is encoded and the bytes decoded  *)
(* again, or bytes are decoded and the value encoded again.  op.cfg holds  *)
(* the type, op.data the input, buf the bytes, f the value.                *)
(***************************************************************************)
\* the values a field is given: every variant of an enumeration, both
\* booleans, the ends and the middle of an unsigned integer; of a signed one
\* both signs when it fills its integer type, the non-negative half otherwise
FieldValues(fld) ==
  CASE fld.k = "skip" -> {0}
    [] fld.k = "bool" -> BOOLEAN
    [] fld.k = "uint" -> RawCodes(fld)
    [] fld.k = "int" ->
         IF fld.w = 16 THEN {-32768, -1, 0, 1, 32767}
         ELSE {0, 1, 2 ^ (fld.w - 1) - 1}
    [] OTHER -> DOMAIN Enum(fld.k).disc

\* values of the type: one field takes each of its values while the others
\* hold the value of their smallest, or of their largest, valid code
ValuesOf(ty) ==
  LET ly == LayoutOf(ty)
      lo == [i \in DOMAIN ly.fields |-> FromRaw(ly.fields[i], LoCode(ly.fields[i]))]
      hi == [i \in DOMAIN ly.fields |->
               IF ly.fields[i].k = "int" THEN 2 ^ (ly.fields[i].w - 1) - 1
               ELSE FromRaw(ly.fields[i], HiCode(ly.fields[i]))]
  IN UNION {UNION {{[lo EXCEPT ![i] = x], [hi EXCEPT ![i] = x]} :
                       x \in FieldValues(ly.fields[i])} : i \in DOMAIN ly.fields}

CodecInit ==
  /\ debug = FALSE
  /\ op = NoOp
  /\ pc = "idle"
  /\ tries = 0
  /\ trace = <<>>
  /\ buf = <<>>
  /\ f = 0
  /\ result = "none"
  /\ flips = 0
  /\ dequeue = <<>>
  /\ yielded = <<>>
  /\ handles = <<>>
  /\ wire = <<>>

\* a value to encode, or bytes to decode, of one of the packed types
CodecCall ==
  /\ pc = "idle"
  /\ \E ty \in PackedTypes :
       \/ \E v \in ValuesOf(ty) :
            op' = MkOp("try_into", 0, 0, v, LayoutOf(ty).bytes, <<>>, <<ty>>)
       \/ \E b \in DeviceImages(ty) :
            op' = MkOp("try_from", 0, 0, b, LayoutOf(ty).bytes, <<>>, <<ty>>)
  /\ pc' = "codec"
  /\ result' = "running"
  /\ UNCHANGED <<handles, wire, debug, tries, trace, buf, f, flips, dequeue, yielded>>

\* rw.rs write: v.try_into() of the value given, or of the value just decoded
CodecEncode ==
  /\ \/ pc = "codec" /\ op.name = "try_into"
        /\ buf' = try_into(op.cfg[1], op.data) /\ f' = op.data
        /\ pc' = "encoded" /\ UNCHANGED result
     \/ pc = "decoded"
        /\ buf' = try_into(op.cfg[1], f) /\ f' = f
        /\ pc' = "done" /\ result' = "Ok"
  /\ UNCHANGED <<handles, wire, debug, op, tries, trace, flips, dequeue, yielded>>

\* rw.rs read: TryFrom::try_from(b) of the bytes given, or of the bytes just
\* encoded; Error::Data when it fails
CodecDecode ==
  /\ \/ pc = "codec" /\ op.name = "try_from" /\ buf' = op.data
     \/ pc = "encoded" /\ buf' = buf
  /\ LET d == try_from(op.cfg[1], buf') IN
       IF d.ok
         THEN /\ f' = d.v
              /\ pc' = IF pc = "encoded" THEN "done" ELSE "decoded"
              /\ result' = IF pc = "encoded" THEN "Ok" ELSE result
         ELSE /\ f' = 0
              /\ pc' = "done"
              /\ result' = "Data"
  /\ UNCHANGED <<handles, wire, debug, op, tries, trace, flips, dequeue, yielded>>

CodecReturn ==
  /\ pc = "done"
  /\ op' = NoOp
  /\ pc' = "idle"
  /\ buf' = <<>>
  /\ f' = 0
  /\ result' = "none"
  /\ UNCHANGED <<handles, wire, debug, tries, trace, flips, dequeue, yielded>>

CodecNext == CodecCall \/ CodecEncode \/ CodecDecode \/ CodecReturn

CodecSpec == CodecInit /\ [][CodecNext]_vars

(***************************************************************************)
(* Decoded events (events.rs, feature `events`).  In EventSpec the trace   *)
(* is the history of the handle, kept across calls of wait_event.          *)
(***************************************************************************)
\* events.rs Event: Tap(n), Orientation { pl, face } and the plain variants
Event(e, n, pl, face) == [e |-> e, n |-> n, pl |-> pl, face |-> face]

\* a push that drops the new event when the queue is full
push_event_dropnew(q, e) == IF Len(q) = DEQUE_CAP THEN q ELSE Append(q, e)

\* events.rs push_event: pop_front() when is_full(), then push_back(e)
push_event(q, e) == Append(IF Len(q) = DEQUE_CAP THEN Tail(q) ELSE q, e)

RECURSIVE push_events(_, _)
push_events(q, es) ==
  IF es = <<>> THEN q ELSE push_events(push_event(q, Head(es)), Tail(es))

\* a pop that takes the newest event
pop_front_newest(q) == [e |-> q[Len(q)], q |-> SubSeq(q, 1, Len(q) - 1)]

\* Deque::pop_front of a queue that is not empty
pop_front(q) == [e |-> Head(q), q |-> Tail(q)]

\* a refill that also pushes the orientation at once, as a plain flag
IntFlags_orientation ==
  <<[i |-> 1, e |-> "NoMotion"], [i |-> 2, e |-> "AnyMotion"], [i |-> 3, e |-> "Flat"],
    [i |-> 4, e |-> "Orientation"],
    [i |-> 5, e |-> "StepDetector"], [i |-> 6, e |-> "StepCounter"],
    [i |-> 7, e |-> "SigMotion"], [i |-> 8, e |-> "Tilt"]>>

\* events.rs push_int1_events: the flags of IntStatus that push an event at
\* once, in the order of the `if`s, each with its field number in IntStatus
IntFlags ==
  <<[i |-> 1, e |-> "NoMotion"], [i |-> 2, e |-> "AnyMotion"], [i |-> 3, e |-> "Flat"],
    [i |-> 5, e |-> "StepDetector"], [i |-> 6, e |-> "StepCounter"],
    [i |-> 7, e |-> "SigMotion"], [i |-> 8, e |-> "Tilt"]>>

\* a tap decoding that looks at t_tap first
tap_event_triplefirst(ext) ==
  IF ext[5] THEN <<Event("Tap", 3, "", "")>>
  ELSE IF ext[4] THEN <<Event("Tap", 2, "", "")>>
  ELSE IF ext[3] THEN <<Event("Tap", 1, "", "")>>
  ELSE <<>>

\* events.rs push_int1_events: s_tap, else d_tap, else t_tap, else no event
tap_event(ext) ==
  IF ext[3] THEN <<Event("Tap", 1, "", "")>>
  ELSE IF ext[4] THEN <<Event("Tap", 2, "", "")>>
  ELSE IF ext[5] THEN <<Event("Tap", 3, "", "")>>
  ELSE <<>>

\* events.rs push_int1_events with the queue q: INT_STATUS_INT1 is read and
\* its flags pushed, FEATURE_EVENT_EXT is read for a tap and again for an
\* orientation, then the tap and the orientation event are pushed; in gives
\* the outcome and the answer of each of the three reads
push_int1_events(q, in) ==
  LET r1 == read_bytes(RegIntStatusInt1, 2, in.ok1, Frame(in.st)) IN
  IF r1.res # "Ok" THEN [res |-> r1.res, ev |-> r1.ev, q |-> q]
  ELSE
    LET st == try_from("IntStatus", r1.buf).v
        set(fl) == st[fl.i]
        flagged == SelectSeq(IntFlags, set)
        q1 == push_events(q, [k \in DOMAIN flagged |-> Event(flagged[k].e, 0, "", "")])
        r2 == read_bytes(RegFeatureEventExt, 2, in.ok2, Frame(in.ext1))
        r3 == read_bytes(RegFeatureEventExt, 2, in.ok3, Frame(in.ext2))
        ev2 == IF st[9] THEN r2.ev ELSE <<>>
        ev3 == IF st[4] THEN r3.ev ELSE <<>>
    IN
    IF st[9] /\ r2.res # "Ok" THEN [res |-> r2.res, ev |-> r1.ev \o r2.ev, q |-> q1]
    ELSE IF st[4] /\ r3.res # "Ok"
      THEN [res |-> r3.res, ev |-> r1.ev \o ev2 \o r3.ev, q |-> q1]
    ELSE
      LET tap == IF st[9] THEN tap_event(try_from("FeatureEventExt", r2.buf).v)
                 ELSE <<>>
          ext == try_from("FeatureEventExt", r3.buf).v
          orient == IF st[4] THEN <<Event("Orientation", 0, ext[1], ext[2])>> ELSE <<>>
      IN [res |-> "Ok", ev |-> r1.ev \o ev2 \o ev3, q |-> push_events(q1, tap \o orient)]

\* INT_STATUS_INT1: nothing, no_motion, only the flags from err_status on,
\* every flag
StatusImages == {to_le_bytes(x) : x \in {0, 1, 64512, 65535}}
\* FEATURE_EVENT_EXT: nothing; s_tap, d_tap and t_tap together; d_tap and
\* t_tap with pl and face; t_tap alone with pl and face
ExtImages == {to_le_bytes(x) : x \in {0, 56, 54, 39}}
\* FEATURE_EVENT_EXT as read for the orientation: two answers that differ in
\* pl and face
OrientImages == {to_le_bytes(x) : x \in {0, 39}}

\* the outcomes and answers of the three reads of a refill; a read that the
\* refill does not reach has one outcome only
RefillInputs ==
  LET all == [ok1 : BOOLEAN, st : StatusImages, ok2 : BOOLEAN, ext1 : ExtImages,
              ok3 : BOOLEAN, ext2 : OrientImages]
      tap(in) == in.ok1 /\ Bit(in.st[2], 0) = 1
      orient(in) == in.ok1 /\ Bit(in.st[1], 3) = 1 /\ (tap(in) => in.ok2)
      unread(ok, ext) == ok /\ ext = <<0, 0>>
  IN {in \in all :
        /\ ~in.ok1 => in.st = <<0, 0>>
        /\ ~tap(in) \/ ~in.ok2 => unread(in.ok2 \/ tap(in), in.ext1)
        /\ ~orient(in) \/ ~in.ok3 => unread(in.ok3 \/ orient(in), in.ext2)}

\* int_pin.wait_for_any_edge() as the handle observes it
Edge(ok) == [k |-> "edge", out |-> <<>>, in |-> <<>>, ok |-> ok, us |-> 0]
EdgeIdx == {i \in DOMAIN trace : trace[i].k = "edge"}

\* wait_event is called on the idle handle
EventCall ==
  /\ pc = "idle"
  /\ op' = MkOp("wait_event", 0, 0, <<>>, 0, <<>>, <<>>)
  /\ pc' = "wait_event"
  /\ result' = "running"
  /\ UNCHANGED <<handles, wire, debug, tries, trace, buf, f, flips, dequeue, yielded>>

\* a wait_event that hands the event over and goes on waiting
Yield_again(ev, q) ==
  /\ trace' = trace \o ev
  /\ dequeue' = pop_front(q).q
  /\ f' = pop_front(q).e
  /\ yielded' = Append(yielded, pop_front(q).e)
  /\ pc' = "wait_event"
  /\ result' = "Ok"
  /\ UNCHANGED <<handles, wire, debug, op, tries, buf, flips>>

\* wait_event returns Ok(e): the caller gets e
Yield(ev, q) ==
  /\ trace' = trace \o ev
  /\ dequeue' = pop_front(q).q
  /\ f' = pop_front(q).e
  /\ yielded' = Append(yielded, pop_front(q).e)
  /\ pc' = "done"
  /\ result' = "Ok"
  /\ UNCHANGED <<handles, wire, debug, op, tries, buf, flips>>

\* events.rs wait_event, one turn of its loop: a queued event is returned;
\* on an empty queue the edge is awaited (Error::Data when that fails), the
\* queue refilled (`?`), and a queued event returned or the loop repeated
wait_event ==
  /\ pc = "wait_event"
  /\ IF dequeue # <<>> THEN Yield(<<>>, dequeue)
     ELSE
       /\ Cardinality(EdgeIdx) < MaxEdges
       /\ \E edge \in BOOLEAN :
            IF ~edge
              THEN /\ trace' = Append(trace, Edge(FALSE))
                   /\ pc' = "done"
                   /\ result' = "Data"
                   /\ UNCHANGED <<handles, wire, debug, op, tries, buf, f, flips, dequeue, yielded>>
            ELSE \E in \in RefillInputs :
              LET r == push_int1_events(dequeue, in) IN
              IF r.res = "Ok" /\ r.q # <<>> THEN Yield(<<Edge(TRUE)>> \o r.ev, r.q)
              ELSE /\ trace' = trace \o <<Edge(TRUE)>> \o r.ev
                   /\ dequeue' = r.q
                   /\ pc' = IF r.res = "Ok" THEN pc ELSE "done"
                   /\ result' = IF r.res = "Ok" THEN result ELSE r.res
                   /\ UNCHANGED <<handles, wire, debug, op, tries, buf, f, flips, yielded>>

\* the caller has taken the result of wait_event; the queue stays
EventReturn ==
  /\ pc = "done"
  /\ op' = NoOp
  /\ pc' = "idle"
  /\ result' = "none"
  /\ UNCHANGED <<handles, wire, debug, tries, trace, buf, f, flips, dequeue, yielded>>

EventNext == EventCall \/ wait_event \/ EventReturn

EventSpec == Init /\ [][EventNext]_vars

(***************************************************************************)
(* The event queue by itself: push_event and pop_front applied in any      *)
(* order to the queue of a new handle.  Every order in which wait_event    *)
(* and its refill push and pop is among these.  op names the operation     *)
(* last applied and the length of the queue it met, f its event.           *)
(***************************************************************************)
QueueEvents == {Event("NoMotion", 0, "", ""), Event("Tap", 2, "", "")}

QueueInit ==
  /\ debug \in BOOLEAN
  /\ op = NoOp
  /\ pc = "idle"
  /\ tries = 0
  /\ trace = <<>>
  /\ buf = <<>>
  /\ f = Event("", 0, "", "")
  /\ result = "none"
  /\ flips = 0
  /\ dequeue = <<>>
  /\ yielded = <<>>
  /\ handles = <<>>
  /\ wire = <<>>

QueuePush ==
  \E e \in QueueEvents :
    /\ dequeue' = push_event(dequeue, e)
    /\ f' = e
    /\ op' = MkOp("push_event", 0, 0, <<>>, Len(dequeue), <<>>, <<>>)
    /\ UNCHANGED <<handles, wire, debug, pc, tries, trace, buf, result, flips, yielded>>

QueuePop ==
  /\ dequeue # <<>>
  /\ dequeue' = pop_front(dequeue).q
  /\ f' = pop_front(dequeue).e
  /\ op' = MkOp("pop_front", 0, 0, <<>>, Len(dequeue), <<>>, <<>>)
  /\ UNCHANGED <<handles, wire, debug, pc, tries, trace, buf, result, flips, yielded>>

QueueNext == QueuePush \/ QueuePop

QueueSpec == QueueInit /\ [][QueueNext]_vars

(***************************************************************************)
(* Two handles on one device.  Every method takes &mut self, so one handle *)
(* runs one operation at a time; two handles built by `new` over a shared  *)
(* bus (each bus transaction atomic, as an I2c implementation makes it)    *)
(* run their feature-memory accesses with nothing between them but the     *)
(* bus: the steps of the two accesses interleave at every await.           *)
(***************************************************************************)
Handles == {1, 2}

\* how often FEATURE_DATA_STATUS may answer "not ready" to one access
MaxBusy == 1

\* the raw block accessors of two feature addresses, two bytes each
SharedOps ==
  {o \in FeatureRawOps :
     /\ o.addr \in {AddrStSelect, AddrGyroScSelect}
     /\ Len(o.data) + o.n = 2}

IdleHandle == [op |-> NoOp, pc |-> "idle", tries |-> 0, buf |-> <<>>, result |-> "none"]

SharedInit ==
  /\ debug \in BOOLEAN
  /\ op = NoOp
  /\ pc = "idle"
  /\ tries = 0
  /\ trace = <<>>
  /\ buf = <<>>
  /\ f = 0
  /\ result = "none"
  /\ flips = 0
  /\ dequeue = <<>>
  /\ yielded = <<>>
  /\ handles = [i \in Handles |-> IdleHandle]
  /\ wire = <<>>

IsTransaction(e) == e.k # "delay"

\* the transactions of ev as handle i puts them on the bus
OnBus(i, ev) ==
  LET tx == SelectSeq(ev, IsTransaction) IN
  [k \in 1..Len(tx) |-> [by |-> i, ev |-> tx[k]]]

SharedAdvance(i, ev, npc, nres, ntries, nbuf) ==
  /\ handles' = [handles EXCEPT ![i] =
                   [op |-> @.op, pc |-> npc, tries |-> ntries, buf |-> nbuf,
                    result |-> nres]]
  /\ wire' = wire \o OnBus(i, ev)
  /\ UNCHANGED <<debug, op, pc, tries, trace, buf, f, result, flips, dequeue, yielded>>

SharedFail(i, ev, e) == SharedAdvance(i, ev, "done", e, handles[i].tries, handles[i].buf)

SharedGoto(i, ev, then, nbuf) ==
  IF then = "return" THEN SharedAdvance(i, ev, "done", "Ok", 0, nbuf)
  ELSE SharedAdvance(i, ev, then, "running", 0, nbuf)

SharedCall(i) ==
  /\ handles[i].pc = "idle"
  /\ \E o \in SharedOps :
       handles' = [handles EXCEPT ![i] =
                     [op |-> o, pc |-> Entry(o), tries |-> 0, buf |-> <<>>,
                      result |-> "running"]]
  /\ UNCHANGED <<debug, op, pc, tries, trace, buf, f, result, flips, dequeue, yielded, wire>>

\* feature/mod.rs wait_feature_data_ready of handle i
shared_wait_feature_data_ready(i, then) ==
  \E ok \in BOOLEAN, v \in FeatureDataStatusVals :
    LET r == read_bytes(RegFeatureDataStatus, 2, ok, Frame(to_le_bytes(v))) IN
    IF r.res # "Ok" THEN SharedFail(i, r.ev, r.res)
    ELSE LET d == wait_feature_data_ready_step(FeatureDataStatus_decode(r.buf),
                                               handles[i].tries)
         IN CASE d = "Retry" ->
                   /\ handles[i].tries < MaxBusy
                   /\ SharedAdvance(i, r.ev, handles[i].pc, "running",
                                    handles[i].tries + 1, handles[i].buf)
              [] d = "Ok" -> SharedGoto(i, r.ev, then, handles[i].buf)
              [] OTHER -> SharedFail(i, r.ev, d)

SharedWriteThen(i, r, then) ==
  IF r.res = "Ok" THEN SharedGoto(i, r.ev, then, handles[i].buf)
  ELSE SharedFail(i, r.ev, r.res)

\* feature/mod.rs write_feature_bytes of handle i
shared_write_feature_bytes(i) ==
  \/ /\ handles[i].pc = "wfb_wait"
     /\ shared_wait_feature_data_ready(i, "wfb_addr")
  \/ /\ handles[i].pc = "wfb_addr"
     /\ \E ok \in BOOLEAN :
          SharedWriteThen(i, write_bytes(RegFeatureDataAddr, <<handles[i].op.addr, 0>>, ok),
                          "wfb_tx")
  \/ /\ handles[i].pc = "wfb_tx"
     /\ \E ok \in BOOLEAN :
          SharedWriteThen(i, write_bytes(RegFeatureDataTx, handles[i].op.data, ok),
                          "return")

\* feature/mod.rs read_feature_bytes of handle i
shared_read_feature_bytes(i) ==
  \/ /\ handles[i].pc = "rfb_check"
     /\ IF handles[i].op.n % 2 # 0 THEN SharedFail(i, <<>>, "Data")
        ELSE SharedAdvance(i, <<>>, "rfb_wait", "running", 0, handles[i].buf)
  \/ /\ handles[i].pc = "rfb_wait"
     /\ shared_wait_feature_data_ready(i, "rfb_addr")
  \/ /\ handles[i].pc = "rfb_addr"
     /\ \E ok \in BOOLEAN :
          SharedWriteThen(i, write_bytes(RegFeatureDataAddr, <<handles[i].op.addr, 0>>, ok),
                          "rfb_rx")
  \/ /\ handles[i].pc = "rfb_rx"
     /\ \E ok \in BOOLEAN :
          LET r == read_bytes(RegFeatureDataTx, handles[i].op.n, ok,
                              Frame(Pattern(handles[i].op.n))) IN
          IF r.res = "Ok" THEN SharedGoto(i, r.ev, "return", r.buf)
          ELSE SharedFail(i, r.ev, r.res)

\* an access that waits while the other handle is between its pointer write
\* and its transfer
feature_access_exclusive(i) ==
  /\ \A j \in Handles \ {i} : handles[j].pc \notin {"wfb_tx", "rfb_rx"}
  /\ \/ shared_write_feature_bytes(i)
     \/ shared_read_feature_bytes(i)

\* the next step of the feature-memory access of handle i: nothing in it
\* looks at the other handle
feature_access(i) ==
  \/ shared_write_feature_bytes(i)
  \/ shared_read_feature_bytes(i)

SharedAccess == \E i \in Handles : feature_access(i)

SharedBegin == \E i \in Handles : SharedCall(i)

SharedNext ==
  \/ SharedBegin
  \/ SharedAccess

SharedSpec == SharedInit /\ [][SharedNext]_vars

(***************************************************************************)
(* Reading the trace.                                                      *)
(***************************************************************************)
IsRead(e, reg) == e.k = "write_read" /\ e.out = <<reg>>
IsWrite(e, reg) == e.k = "write" /\ Len(e.out) >= 1 /\ e.out[1] = reg
IsDelay(e, us) == e.k = "delay" /\ e.us >= us
ReadIdx(reg) == {i \in DOMAIN trace : IsRead(trace[i], reg)}
WriteIdx(reg) == {i \in DOMAIN trace : IsWrite(trace[i], reg)}
PayloadOf(e) == SubSeq(e.in, 3, Len(e.in))
BusIdx == {i \in DOMAIN trace : trace[i].k # "delay"}
AllOk == \A i \in DOMAIN trace : trace[i].ok
Done == pc = "done"

FeatureOpNames == RawWriteOps \cup RawReadOps \cup EnableOpNames \cup {"set_axis_remap"}
FeatureWriteNames == RawWriteOps \cup EnableOpNames \cup {"set_axis_remap"}

\* a successful FEATURE_DATA_STATUS read that reports neither ready nor out-of-bound
BusyStatus(e) ==
  /\ IsRead(e, RegFeatureDataStatus) /\ e.ok
  /\ Bit(from_le_bytes(PayloadOf(e)), 0) = 0
  /\ Bit(from_le_bytes(PayloadOf(e)), 1) = 0
\* a successful FEATURE_DATA_STATUS read that reports ready and no out-of-bound
ReadyStatus(e) ==
  /\ IsRead(e, RegFeatureDataStatus) /\ e.ok
  /\ Bit(from_le_bytes(PayloadOf(e)), 0) = 0
  /\ Bit(from_le_bytes(PayloadOf(e)), 1) = 1

(***************************************************************************)
(* C1.  When FEATURE_DATA_STATUS never reports data_tx_ready (nor          *)
(* out-of-bound), a feature-memory read or write fails with Error::Data    *)
(* after exactly 100 reads of FEATURE_DATA_STATUS, and nothing is written  *)
(* to the address pointer or moved through the data window.                *)
(***************************************************************************)
C1_NeverReady ==
  /\ op.name \in FeatureOpNames
  /\ Done
  /\ ReadIdx(RegFeatureDataStatus) # {}
  /\ \A i \in BusIdx : BusyStatus(trace[i])

C1_ExactlyHundredPolls ==
  C1_NeverReady =>
    /\ result = "Data"
    /\ Cardinality(ReadIdx(RegFeatureDataStatus)) = 100
    /\ WriteIdx(RegFeatureDataAddr) = {}
    /\ WriteIdx(RegFeatureDataTx) = {} /\ ReadIdx(RegFeatureDataTx) = {}

(***************************************************************************)
(* C2.  A feature-memory access is, in this order: reads of                *)
(* FEATURE_DATA_STATUS until one reports ready, one write of               *)
(* [feature_address, 0] to FEATURE_DATA_ADDR, one transfer of the payload  *)
(* through FEATURE_DATA_TX (a write for a feature write, a read for a      *)
(* feature read).  The pointer is never written before a ready status was  *)
(* read, the payload never moves before the pointer write succeeded.       *)
(***************************************************************************)
C2_PointerAfterReady ==
  \A i \in WriteIdx(RegFeatureDataAddr) :
    /\ i > 1 /\ ReadyStatus(trace[i - 1])
    /\ trace[i].out = <<RegFeatureDataAddr, op.addr, 0>>
    /\ \A j \in ReadIdx(RegFeatureDataStatus) : j < i
    /\ \A j \in 1..(i - 2) : trace[j].k # "delay" => BusyStatus(trace[j])

C2_PayloadAfterPointer ==
  \A i \in WriteIdx(RegFeatureDataTx) \cup ReadIdx(RegFeatureDataTx) :
    /\ i > 2
    /\ IsWrite(trace[i - 2], RegFeatureDataAddr) /\ trace[i - 2].ok
    /\ trace[i - 1].k = "delay"
    /\ IF op.name \in FeatureWriteNames
         THEN trace[i] = I2cWrite(<<RegFeatureDataTx>> \o op.data, trace[i].ok)
         ELSE IsRead(trace[i], RegFeatureDataTx) /\ Len(trace[i].in) = op.n + 2

C2_FeatureAccessOrder ==
  op.name \in FeatureOpNames =>
    /\ C2_PointerAfterReady
    /\ C2_PayloadAfterPointer
    /\ Cardinality(WriteIdx(RegFeatureDataAddr)) <= 1
    /\ Cardinality(WriteIdx(RegFeatureDataTx) \cup ReadIdx(RegFeatureDataTx)) <= 1
    /\ (Done /\ result = "Ok" =>
          /\ Cardinality(WriteIdx(RegFeatureDataAddr)) = 1
          /\ IF op.name \in FeatureWriteNames
               THEN Cardinality(WriteIdx(RegFeatureDataTx)) = 1
               ELSE Cardinality(ReadIdx(RegFeatureDataTx)) = 1)

\* a feature write that had to poll twice before the pointer write, and a
\* feature read, both completed
C2_Witness ==
  /\ op.name = "set_self_test_select" /\ Done /\ result = "Ok"
  /\ Len(op.data) = 2
  /\ Cardinality(ReadIdx(RegFeatureDataStatus)) = 3

(***************************************************************************)
(* C3.  Every enable_<feature> writes the feature's configuration block,   *)
(* then reads FEATURE_IO0, then writes FEATURE_IO0, then writes 0x0001 to  *)
(* FEATURE_IO_STATUS; FEATURE_IO0 is never written unless the              *)
(* configuration-block write of the same operation succeeded.              *)
(***************************************************************************)
C3_ConfigWritten(i) ==
  \E j \in 1..(i - 1) :
    trace[j] = I2cWrite(<<RegFeatureDataTx>> \o op.data, TRUE)

C3_EnableOrder ==
  op.name \in EnableOpNames =>
    /\ \A i \in ReadIdx(RegFeatureIo0) :
         /\ i > 2
         /\ trace[i - 2] = I2cWrite(<<RegFeatureDataTx>> \o op.data, TRUE)
    /\ \A i \in WriteIdx(RegFeatureIo0) :
         /\ C3_ConfigWritten(i)
         /\ i > 1 /\ IsRead(trace[i - 1], RegFeatureIo0) /\ trace[i - 1].ok
    /\ \A i \in WriteIdx(RegFeatureIoStatus) :
         /\ i > 2 /\ IsWrite(trace[i - 2], RegFeatureIo0) /\ trace[i - 2].ok
         /\ trace[i].out = <<RegFeatureIoStatus, 1, 0>>
    /\ Cardinality(ReadIdx(RegFeatureIo0)) <= 1
    /\ Cardinality(WriteIdx(RegFeatureIo0)) <= 1
    /\ Cardinality(WriteIdx(RegFeatureIoStatus)) <= 1
    /\ (Done /\ result = "Ok" =>
          /\ Cardinality(WriteIdx(RegFeatureIo0)) = 1
          /\ Cardinality(WriteIdx(RegFeatureIoStatus)) = 1
          /\ IsWrite(trace[Len(trace) - 1], RegFeatureIoStatus))

\* enable_any_motion(true, false, false, cfg) on a mask 0x8A51: bit 3 is set,
\* bit 4 cleared, bit 15 is not carried over
C3_Witness ==
  /\ op.name = "enable_any_motion" /\ Done /\ result = "Ok"
  /\ op.bits = <<<<3, 1>>, <<4, 0>>, <<5, 0>>>>
  /\ \E i \in ReadIdx(RegFeatureIo0) : PayloadOf(trace[i]) = <<81, 138>>
  /\ \E i \in WriteIdx(RegFeatureIo0) : trace[i].out = <<RegFeatureIo0, 73, 10>>

(***************************************************************************)
(* C4.  set_accel_conf / set_gyro_conf write the configuration register    *)
(* and only then poll STATUS for the sensor's data-ready bit, 2 ms between *)
(* polls; when the bit never sets the operation fails with Error::Data     *)
(* after at most 20 polls, and it returns Ok only after a STATUS read with *)
(* the bit set.                                                            *)
(***************************************************************************)
C4_DrdyBit == IF op.name = "set_accel_conf" THEN 7 ELSE 6

C4_PollAfterWrite ==
  \A i \in ReadIdx(RegStatus) :
    /\ trace[1] = I2cWrite(<<op.reg>> \o SensorConfig_encode(op.cfg), TRUE)
    /\ i > 2
    /\ i > 3 => IsRead(trace[i - 2], RegStatus) /\ IsDelay(trace[i - 1], 2000)

C4_OkAfterReady ==
  Done /\ result = "Ok" =>
    LET e == trace[Len(trace)] IN
    IsRead(e, RegStatus) /\ e.ok /\ Bit(PayloadOf(e)[1], C4_DrdyBit) = 1

C4_DataReadyBudget ==
  op.name \in {"set_accel_conf", "set_gyro_conf"} =>
    /\ C4_PollAfterWrite
    /\ C4_OkAfterReady
    /\ Cardinality(ReadIdx(RegStatus)) <= 20
    /\ (Done /\ AllOk
          /\ (\A i \in ReadIdx(RegStatus) : Bit(PayloadOf(trace[i])[1], C4_DrdyBit) = 0)
        => result = "Data")

(***************************************************************************)
(* C5.  When the feature engine never reports Activated but keeps          *)
(* reporting another decodable code, enable_feature_engine fails with      *)
(* Error::Init, never with Error::Data.                                    *)
(***************************************************************************)
C5_ErrorCode(e) == from_le_bytes(PayloadOf(e)) % 16

C5_NeverActivated ==
  /\ op.name = "enable_feature_engine"
  /\ Done
  /\ AllOk
  /\ \A i \in ReadIdx(RegFeatureIo1) :
       /\ FeatureIoError_valid(C5_ErrorCode(trace[i]))
       /\ C5_ErrorCode(trace[i]) # FeatureIoError_Activated

C5_ActivationTimeoutIsInit == C5_NeverActivated => result = "Init"

C5_Witness ==
  /\ C5_NeverActivated
  /\ result = "Init"
  /\ \E i, j \in ReadIdx(RegFeatureIo1) :
       C5_ErrorCode(trace[i]) # C5_ErrorCode(trace[j])

(***************************************************************************)
(* C6.  The activation poll has a budget of 10 tries of 100 ms:            *)
(* enable_feature_engine performs exactly 10 reads of FEATURE_IO1, each    *)
(* preceded by a 100 ms delay, before it fails for the timeout.            *)
(***************************************************************************)
C6_ExactlyTenPolls ==
  op.name = "enable_feature_engine" =>
    /\ \A i \in ReadIdx(RegFeatureIo1) : i > 1 /\ IsDelay(trace[i - 1], 100000)
    /\ (Done /\ result = "Init" => Cardinality(ReadIdx(RegFeatureIo1)) = 10)

(***************************************************************************)
(* C7.  set_axis_remap writes the feature block, then writes the           *)
(* axis-map-update command 0x0300 to the command register, then polls the  *)
(* axis-map-complete bit with 2 ms per try; when the bit never sets it     *)
(* fails with Error::Data after at most 100 status reads, and it returns   *)
(* Ok only after a read with the bit set.                                  *)
(***************************************************************************)
C7_AxisComplete(e) == Bit(from_le_bytes(PayloadOf(e)), 10) = 1

C7_Order ==
  /\ \A i \in WriteIdx(RegCmd) :
       /\ trace[i].out = <<RegCmd, 0, 3>>
       /\ i > 2 /\ trace[i - 2] = I2cWrite(<<RegFeatureDataTx>> \o op.data, TRUE)
  /\ \A i \in ReadIdx(RegFeatureEngineStatus) :
       /\ i > 2
       /\ \/ IsWrite(trace[i - 2], RegCmd) /\ trace[i - 2].ok
          \/ IsRead(trace[i - 2], RegFeatureEngineStatus) /\ IsDelay(trace[i - 1], 2000)

C7_OkAfterComplete ==
  Done /\ result = "Ok" =>
    LET e == trace[Len(trace)] IN
    IsRead(e, RegFeatureEngineStatus) /\ e.ok /\ C7_AxisComplete(e)

C7_AxisMapBudget ==
  op.name = "set_axis_remap" =>
    /\ C7_Order
    /\ C7_OkAfterComplete
    /\ Cardinality(ReadIdx(RegFeatureEngineStatus)) <= 100
    /\ (Done /\ AllOk /\ ReadIdx(RegFeatureEngineStatus) # {}
          /\ (\A i \in ReadIdx(RegFeatureEngineStatus) : ~C7_AxisComplete(trace[i]))
        => result = "Data")

(***************************************************************************)
(* C8.  A register read of N bytes is one write-then-read transaction      *)
(* whose written part is the single register byte and whose read part is   *)
(* exactly N + 2 bytes; the value returned is bytes 2..N+1 of what was     *)
(* read, the two leading bytes are dropped.                                *)
(***************************************************************************)
C8_ReadFraming ==
  /\ \A i \in DOMAIN trace : trace[i].k = "write_read" => Len(trace[i].out) = 1
  /\ op.name = "read_bytes" /\ Done /\ result \in {"Ok", "I2c"} =>
       /\ Len(trace) = 1
       /\ IsRead(trace[1], op.reg)
       /\ Len(trace[1].in) = op.n + 2
       /\ trace[1].ok = (result = "Ok")
       /\ result = "Ok" =>
            /\ Len(buf) = op.n
            /\ \A j \in 1..op.n : buf[j] = trace[1].in[j + 2]
  /\ op.name \in RawReadOps /\ Done /\ result = "Ok" =>
       LET e == trace[Len(trace)] IN
       /\ IsRead(e, RegFeatureDataTx)
       /\ Len(e.in) = op.n + 2
       /\ buf = SubSeq(e.in, 3, op.n + 2)

\* a read whose frame tells the dropped bytes from the returned ones
C8_Witness ==
  /\ op.name = "read_bytes" /\ Done /\ result = "Ok"
  /\ op.n = 2
  /\ trace[1].in = <<0, 1, 255, 0>>
  /\ buf = <<255, 0>>

(***************************************************************************)
(* C9.  A register write is exactly one bus write whose bytes are the      *)
(* register address followed by the payload, and on success it is followed *)
(* by a delay of at least 20 microseconds before the write returns.        *)
(***************************************************************************)
C9_WriteFraming ==
  /\ \A i \in DOMAIN trace :
       trace[i].k = "write" /\ trace[i].ok =>
         i < Len(trace) /\ IsDelay(trace[i + 1], 20)
  /\ op.name = "write_bytes" /\ Done /\ result = "Ok" =>
       trace = <<I2cWrite(<<op.reg>> \o op.data, TRUE), trace[2]>>
  /\ op.name = "write_bytes" /\ Done /\ result = "I2c" =>
       trace = <<I2cWrite(<<op.reg>> \o op.data, FALSE)>>

C9_Witness ==
  /\ op.name = "write_bytes" /\ Done /\ result = "Ok"
  /\ Len(op.data) = 2
  /\ Len(trace) = 2 /\ IsDelay(trace[2], 20)

(***************************************************************************)
(* C10.  A write payload longer than 31 bytes and a read payload longer    *)
(* than 30 bytes are rejected before the bus is touched; a payload is      *)
(* never truncated, and no bus transaction carries more than 32 bytes.     *)
(***************************************************************************)
C10_Whole(e) ==
  /\ Len(e.out) <= 32 /\ Len(e.in) <= 32
  /\ (op.name = "write_bytes" => Len(e.out) = 1 + Len(op.data))
  /\ (op.name = "read_bytes" => Len(e.in) = op.n + 2)
  /\ (op.name \in RawWriteOps /\ IsWrite(e, RegFeatureDataTx) =>
        Len(e.out) = 1 + Len(op.data))
  /\ (op.name \in RawReadOps /\ IsRead(e, RegFeatureDataTx) =>
        Len(e.in) = op.n + 2)

C10_OversizeRejected ==
  /\ \A i \in BusIdx : C10_Whole(trace[i])
  /\ op.name = "write_bytes" /\ Len(op.data) > 31 /\ Done =>
       result = "Panic" /\ trace = <<>>
  /\ op.name = "read_bytes" /\ op.n > 30 /\ Done =>
       result = "Panic" /\ trace = <<>>
  /\ op.name \in RawWriteOps /\ Len(op.data) > 31 =>
       /\ WriteIdx(RegFeatureDataTx) = {}
       /\ result # "Ok"
  /\ op.name \in RawReadOps /\ op.n > 30 =>
       /\ ReadIdx(RegFeatureDataTx) = {}
       /\ result # "Ok"

\* the release build rejects a 32-byte write, the debug build a 31-byte read
C10_Witness ==
  /\ ~debug /\ Done /\ result = "Panic"
  /\ op.name = "write_bytes" /\ Len(op.data) = 32
  /\ trace = <<>>

(***************************************************************************)
(* C11.  A bus failure during any operation is returned as Error::I2c and  *)
(* the failed transaction is never retried: it is the last thing the       *)
(* operation does on the bus, also inside a readiness poll loop.           *)
(***************************************************************************)
C11_BusErrorPropagates ==
  /\ \A i \in BusIdx :
       ~trace[i].ok => i = Len(trace) /\ Done /\ result = "I2c"
  /\ result = "I2c" => trace # <<>> /\ ~trace[Len(trace)].ok

\* the STATUS read fails in the third iteration of the data-ready poll
C11_Witness ==
  /\ op.name = "set_gyro_conf" /\ Done /\ result = "I2c"
  /\ Cardinality(ReadIdx(RegStatus)) = 3
  /\ IsRead(trace[Len(trace)], RegStatus) /\ ~trace[Len(trace)].ok

(***************************************************************************)
(* C12.  When a read of FEATURE_DATA_STATUS reports out_of_bound_err, the  *)
(* feature read or write fails at once with Error::Data, also when         *)
(* data_tx_ready is set in the same status: no further poll, no write to   *)
(* FEATURE_DATA_ADDR, no transfer through FEATURE_DATA_TX.                 *)
(***************************************************************************)
C12_OutOfBound(e) ==
  IsRead(e, RegFeatureDataStatus) /\ e.ok /\ Bit(from_le_bytes(PayloadOf(e)), 0) = 1

C12_OutOfBoundFailsAtOnce ==
  op.name \in FeatureOpNames =>
    \A i \in ReadIdx(RegFeatureDataStatus) :
      C12_OutOfBound(trace[i]) =>
        /\ i = Len(trace) /\ Done /\ result = "Data"
        /\ WriteIdx(RegFeatureDataAddr) = {}
        /\ WriteIdx(RegFeatureDataTx) = {} /\ ReadIdx(RegFeatureDataTx) = {}

\* out_of_bound_err and data_tx_ready in the same status, after one busy poll
C12_Witness ==
  /\ op.name = "get_gyro_sc_select" /\ op.n = 2 /\ Done /\ result = "Data"
  /\ Cardinality(ReadIdx(RegFeatureDataStatus)) = 2
  /\ PayloadOf(trace[Len(trace)]) = <<3, 0>>

(***************************************************************************)
(* C15.  When the device returns bytes in which an enumerated field holds  *)
(* a code without variant (ODR 0 or 15, accel range 4..7, power mode 1, 2, *)
(* 5 or 6 in ACC_CONF, ...), the typed read returns Error::Data; it does   *)
(* not panic and does not yield a value.                                   *)
(***************************************************************************)
C15_Word == from_le_bytes(PayloadOf(trace[1]))
C15_Odr == C15_Word % 16
C15_Range == (C15_Word \div 16) % 8
C15_Avg == (C15_Word \div 256) % 8
C15_Mode == (C15_Word \div 4096) % 8

\* every enumerated field of the word read holds a code of its enum
C15_Valid ==
  /\ C15_Odr \in 1..14
  /\ C15_Avg \in 0..6
  /\ IF op.name = "get_accel_conf"
       THEN C15_Range \in 0..3 /\ C15_Mode \in {0, 3, 4, 7}
       ELSE C15_Range \in 0..4 /\ C15_Mode \in {0, 1, 3, 4, 7}

C15_InvalidCodeIsData ==
  op.name \in {"get_accel_conf", "get_gyro_conf"} /\ Done /\ trace[1].ok =>
    /\ result = (IF C15_Valid THEN "Ok" ELSE "Data")
    /\ Len(trace) = 1

\* ACC_CONF with power mode 5 in an otherwise valid word
C15_Witness ==
  /\ op.name = "get_accel_conf" /\ Done /\ result = "Data"
  /\ trace[1].ok /\ PayloadOf(trace[1]) = <<1, 80>>

(***************************************************************************)
(* C18.  AccelConfig is 2 little-endian bytes: ODR in bits 0-3, range in   *)
(* bits 4-6, bandwidth in bit 7, averaging in bits 8-10, bit 11 zero,      *)
(* power mode in bits 12-14; it is written to register 0x20, and decoding  *)
(* reads the same positions whatever bit 11 holds.                         *)
(***************************************************************************)
C18_Written ==
  op.name = "set_accel_conf" /\ trace # <<>> =>
    LET w == from_le_bytes(SubSeq(trace[1].out, 2, 3)) IN
    /\ trace[1].k = "write" /\ Len(trace[1].out) = 3 /\ trace[1].out[1] = 32
    /\ w % 16 = op.cfg[1]
    /\ (w \div 16) % 8 = op.cfg[2]
    /\ Bit(w, 7) = op.cfg[3]
    /\ (w \div 256) % 8 = op.cfg[4]
    /\ Bit(w, 11) = 0
    /\ (w \div 4096) % 8 = op.cfg[5]
    /\ Bit(w, 15) = 0

C18_Decoded ==
  op.name = "get_accel_conf" /\ Done /\ result = "Ok" =>
    /\ IsRead(trace[1], 32)
    /\ OutputDataRate_enum.disc[f[1]] = C15_Odr
    /\ AccelRange_enum.disc[f[2]] = C15_Range
    /\ Bandwidth_enum.disc[f[3]] = Bit(C15_Word, 7)
    /\ AverageNum_enum.disc[f[4]] = C15_Avg
    /\ AccelPowerMode_enum.disc[f[6]] = C15_Mode

C18_AccelConfigLayout == C18_Written /\ C18_Decoded

\* ACC_CONF read with bit 11 set: Hz0_78, G2, OdrHalf, No, Disable
C18_Witness ==
  /\ op.name = "get_accel_conf" /\ Done /\ result = "Ok"
  /\ PayloadOf(trace[1]) = <<1, 8>>
  /\ f[1] = "Hz0_78" /\ f[6] = "Disable"

(***************************************************************************)
(* C19.  get_id returns Ok(b) for every byte b the bus returns as the      *)
(* chip-id payload, 0x43 or not, after exactly one read of register 0x00;  *)
(* it never returns InvalidChipId.                                         *)
(***************************************************************************)
C19_GetIdUnchecked ==
  op.name = "get_id" =>
    /\ result # "InvalidChipId"
    /\ (Done =>
          /\ Len(trace) = 1 /\ IsRead(trace[1], 0) /\ Len(trace[1].in) = 3
          /\ result = (IF trace[1].ok THEN "Ok" ELSE "I2c")
          /\ (trace[1].ok => f = trace[1].in[3]))

C19_Witness ==
  /\ op.name = "get_id" /\ Done /\ result = "Ok"
  /\ PayloadOf(trace[1]) = <<255>> /\ f = 255

(***************************************************************************)
(* C20.  set_fifo_watermark(level) writes min(level, 1023) as a 10-bit     *)
(* value to register 0x35 for every 16-bit level: a level above 1023 is    *)
(* clamped to 1023, neither rejected nor wrapped modulo 1024.              *)
(***************************************************************************)
C20_WatermarkClamped ==
  op.name = "set_fifo_watermark" /\ Done =>
    /\ result \in {"Ok", "I2c"}
    /\ trace # <<>> /\ trace[1].k = "write"
    /\ trace[1].out =
         <<53>> \o to_le_bytes(IF op.n > 1023 THEN 1023 ELSE op.n)

C20_Witness ==
  /\ op.name = "set_fifo_watermark" /\ op.n = 2000 /\ Done /\ result = "Ok"
  /\ trace[1].out = <<53, 255, 3>>

(***************************************************************************)
(* C13.  Round-trip law: for every typed register or feature value whose   *)
(* integer fields fit their declared widths and whose enumerated fields    *)
(* are valid variants, decoding the encoded value gives the value back.    *)
(***************************************************************************)
C13_RoundTrip ==
  op.name = "try_into" /\ pc = "done" =>
    /\ result = "Ok"
    /\ Len(buf) = op.n
    /\ f = op.data

\* TapConfig with axis Z and the largest max_peaks, encoded and decoded
C13_Witness ==
  /\ op.name = "try_into" /\ pc = "done" /\ op.cfg = <<"TapConfig">>
  /\ result = "Ok" /\ f = op.data
  /\ f[1] = "Z" /\ f[3] = 7

(***************************************************************************)
(* C14.  For every typed register or feature value and every byte array of *)
(* its length that decodes successfully, encoding the decoded value gives  *)
(* the bytes back in every bit position outside the declared skip regions, *)
(* and zero in the declared skip positions.                                *)
(***************************************************************************)
C14_Reencoded == op.name = "try_from" /\ pc = "done" /\ result = "Ok"

\* bit i lies in a declared skip of the layout
C14_InSkip(ly, i) ==
  \E j \in DOMAIN ly.fields :
    /\ ly.fields[j].k = "skip"
    /\ Offset(ly.fields, j) <= i /\ i < Offset(ly.fields, j) + ly.fields[j].w

\* the statement as claimed
C14_BytesBack ==
  C14_Reencoded =>
    LET ly == LayoutOf(op.cfg[1]) IN
    \A i \in 0..(8 * ly.bytes - 1) :
      BitOfBytes(buf, i) = IF C14_InSkip(ly, i) THEN 0 ELSE BitOfBytes(op.data, i)

\* C14 as it holds: every declared field comes back, except an IntPin field
\* holding the code 3, which comes back as 0; the declared skip positions and
\* the bits after the last declared field are zero
C14_FieldsBack ==
  C14_Reencoded =>
    LET ly == LayoutOf(op.cfg[1])
        was == Unpack(ly, op.data)
        now == Unpack(ly, buf) IN
    /\ Len(buf) = ly.bytes
    /\ \A j \in DOMAIN ly.fields :
         now[j] = IF ly.fields[j].k = "skip" THEN 0
                  ELSE IF ly.fields[j].k = "IntPin" /\ was[j] = 3 THEN 0
                  ELSE was[j]
    /\ \A i \in TotalBits(ly.fields)..(8 * ly.bytes - 1) : BitOfBytes(buf, i) = 0

\* an IntMap whose first pin field holds 3 (IBI) is decoded and encoded again
C14_Witness ==
  /\ C14_Reencoded /\ op.cfg = <<"IntMap">>
  /\ Unpack(IntMap_layout, op.data)[1] = 3
  /\ Unpack(IntMap_layout, buf)[1] = 0

(***************************************************************************)
(* C17.  For every bit-packed register or feature type of the driver, the  *)
(* declared field widths and declared skip widths sum to exactly 8 times   *)
(* the type's byte length, and no two fields overlap.                      *)
(***************************************************************************)
C17_InUse == op.name \in {"try_into", "try_from"}

\* the fields lie one after another from bit 0, each at least one bit wide
C17_NoOverlap(ly) ==
  \A i, j \in DOMAIN ly.fields :
    /\ ly.fields[i].w >= 1
    /\ i < j => Offset(ly.fields, i) + ly.fields[i].w <= Offset(ly.fields, j)

\* the statement as claimed
C17_ExactCover ==
  C17_InUse =>
    LET ly == LayoutOf(op.cfg[1]) IN
    TotalBits(ly.fields) = 8 * ly.bytes /\ C17_NoOverlap(ly)

\* C17 as it holds: the declared widths sum to at most 8 times the byte
\* length, no two fields overlap, and the bytes always have the declared
\* length, the bits after the last declared field being left undeclared
C17_WithinBytes ==
  C17_InUse =>
    LET ly == LayoutOf(op.cfg[1]) IN
    /\ TotalBits(ly.fields) <= 8 * ly.bytes
    /\ C17_NoOverlap(ly)
    /\ pc \in {"encoded", "done"} /\ result # "Data" => Len(buf) = ly.bytes

\* FifoWatermark declares 10 of its 16 bits and is encoded into two bytes
C17_Witness ==
  /\ op.name = "try_into" /\ op.cfg = <<"FifoWatermark">> /\ pc = "encoded"
  /\ TotalBits(FifoWatermark_layout.fields) = 10
  /\ buf = <<255, 3>>

(***************************************************************************)
(* C21.  For every output buffer length L and every fill level F (in       *)
(* words) the device reports, read_fifo_bytes returns n = min(L, 2 * F)    *)
(* and reads exactly n payload bytes from FIFO_DATA, with no FIFO_DATA     *)
(* read when n = 0; L = 1024 with F = 10 returns 20.                       *)
(***************************************************************************)
\* the fill level, in words, that the device reported to the operation
C21_Fill ==
  IF trace # <<>> /\ IsRead(trace[1], 21)
    THEN from_le_bytes(PayloadOf(trace[1])) % 2048 ELSE 0

\* the bytes a buffer of l bytes can take from the reported fill level
C21_Available(l) == IF l < 2 * C21_Fill THEN l ELSE 2 * C21_Fill

C21_DataReads == {i \in DOMAIN trace : IsRead(trace[i], 22)}

C21_ReadsAvailable ==
  op.name = "read_fifo_bytes" /\ Done /\ AllOk =>
    /\ result = "Ok"
    /\ f = C21_Available(op.n)
    /\ IF f = 0 THEN C21_DataReads = {}
       ELSE /\ Cardinality(C21_DataReads) = 1
            /\ \A i \in C21_DataReads : Len(PayloadOf(trace[i])) = f

(***************************************************************************)
(* C22.  read_fifo_words returns normally for every buffer length and      *)
(* every fill level, with a count w <= min(out.len(), fill level), and     *)
(* out[0..w] are the little-endian compositions of the consecutive byte    *)
(* pairs read from FIFO_DATA.                                              *)
(***************************************************************************)
C22_WordsRead ==
  op.name = "read_fifo_words" /\ Done /\ AllOk =>
    /\ result = "Ok"
    /\ Len(f) <= op.n /\ Len(f) <= C21_Fill
    /\ \A i \in C21_DataReads :
         /\ 2 * Len(f) <= Len(PayloadOf(trace[i]))
         /\ \A k \in DOMAIN f :
              f[k] = PayloadOf(trace[i])[2 * k - 1] + 256 * PayloadOf(trace[i])[2 * k]
    /\ C21_DataReads = {} => f = <<>>

(***************************************************************************)
(* C23.  soft_reset writes the command 0xDEAF little-endian (0xAF, 0xDE)   *)
(* to the command register 0x7E and then delays at least 1500 microseconds *)
(* before it returns; it makes no bus transaction after the command.       *)
(***************************************************************************)
C23_ResetThenDelay ==
  op.name = "soft_reset" /\ Done =>
    /\ trace # <<>> /\ trace[1].k = "write" /\ trace[1].out = <<126, 175, 222>>
    /\ \A i \in 2..Len(trace) : trace[i].k = "delay"
    /\ result = (IF trace[1].ok THEN "Ok" ELSE "I2c")
    /\ result = "Ok" => trace[Len(trace)].k = "delay" /\ trace[Len(trace)].us >= 1500

\* the reset command went out and the wait of delay_ms(1500) followed
C23_Witness ==
  /\ op.name = "soft_reset" /\ Done /\ result = "Ok"
  /\ trace[1].out = <<126, 175, 222>>
  /\ trace[Len(trace)] = Delay(1500000)

(***************************************************************************)
(* C24.  Every readiness poll loop (data-ready, feature-engine activation, *)
(* axis-remap completion, feature-data-ready) terminates: provided each    *)
(* bus and delay call returns, the operation returns Ok or Err after a     *)
(* bounded number of status reads whatever the device answers, and the     *)
(* timeout error is returned right after the last status read, with no     *)
(* further bus traffic.                                                    *)
(***************************************************************************)
C24_PollRegs ==
  {RegFeatureDataStatus, RegStatus, RegFeatureIo1, RegFeatureEngineStatus}

\* an operation that failed on what it polled, its timeout included, made no
\* bus transaction after the status read that decided it
C24_ErrorAfterLastRead ==
  Done /\ result \in {"Data", "Init"} /\ BusIdx # {} =>
    \E j \in BusIdx :
      /\ \A i \in BusIdx : i <= j
      /\ \E reg \in C24_PollRegs : IsRead(trace[j], reg)

C24_Bounded ==
  /\ Cardinality(ReadIdx(RegFeatureDataStatus)) <= FEATURE_READY_TRIES + 2
  /\ Cardinality(ReadIdx(RegStatus)) <= WAIT_FOR_RETRIES + 2
  /\ Cardinality(ReadIdx(RegFeatureIo1)) <= ENGINE_TRIES + 1
  /\ Cardinality(ReadIdx(RegFeatureEngineStatus)) <= AXIS_MAP_TRIES + 1
  /\ C24_ErrorAfterLastRead

EvFlagNames ==
  <<"NoMotion", "AnyMotion", "Flat", "", "StepDetector", "StepCounter", "SigMotion", "Tilt">>
EvPlNames == <<"PortraitUpRight", "LandscapeLeft", "PortraitUpDown", "LandscapeRight">>
EvFaceNames == <<"Up", "Down">>

RECURSIVE EvFlagsFrom(_, _)
EvFlagsFrom(w, b) ==
  IF b > Len(EvFlagNames) THEN <<>>
  ELSE (IF Bit(w, b - 1) = 1 /\ EvFlagNames[b] # ""
          THEN <<Event(EvFlagNames[b], 0, "", "")>> ELSE <<>>)
       \o EvFlagsFrom(w, b + 1)

EvExtOkAt(j) ==
  j \in DOMAIN trace /\ IsRead(trace[j], RegFeatureEventExt) /\ trace[j].ok
EvExtWord(j) == from_le_bytes(PayloadOf(trace[j]))
EvTapOf(x) ==
  IF Bit(x, 3) = 1 THEN <<Event("Tap", 1, "", "")>>
  ELSE IF Bit(x, 4) = 1 THEN <<Event("Tap", 2, "", "")>>
  ELSE IF Bit(x, 5) = 1 THEN <<Event("Tap", 3, "", "")>>
  ELSE <<>>
EvOrientOf(x) ==
  <<Event("Orientation", 0, EvPlNames[(x % 4) + 1], EvFaceNames[Bit(x, 2) + 1])>>

\* the refill whose status read is trace[i] ran to its end
EvRefillComplete(i) ==
  LET w == from_le_bytes(PayloadOf(trace[i])) IN
  /\ IsRead(trace[i], RegIntStatusInt1) /\ trace[i].ok
  /\ \A k \in 1..(Bit(w, 8) + Bit(w, 3)) : EvExtOkAt(i + k)

\* the events that the refill whose status read is trace[i] enqueued
EvRefill(i) ==
  LET w == from_le_bytes(PayloadOf(trace[i])) IN
  IF ~trace[i].ok THEN <<>>
  ELSE EvFlagsFrom(w, 1)
       \o (IF ~EvRefillComplete(i) THEN <<>>
           ELSE (IF Bit(w, 8) = 1 THEN EvTapOf(EvExtWord(i + 1)) ELSE <<>>)
                \o (IF Bit(w, 3) = 1 THEN EvOrientOf(EvExtWord(i + Bit(w, 8) + 1))
                    ELSE <<>>))

RECURSIVE EvEnqueuedFrom(_)
EvEnqueuedFrom(i) ==
  IF i > Len(trace) THEN <<>>
  ELSE (IF IsRead(trace[i], RegIntStatusInt1) THEN EvRefill(i) ELSE <<>>)
       \o EvEnqueuedFrom(i + 1)

(***************************************************************************)
(* C26.  wait_event yields events in FIFO order: the events returned so    *)
(* far, followed by the events still queued, are exactly the events the    *)
(* refills decoded from their interrupt-status reads, in the order of      *)
(* enqueueing; so every enqueued event is returned once, in order, and no  *)
(* other event is returned.  The value a successful call hands to the      *)
(* caller is the event it took from the queue.                             *)
(***************************************************************************)
C26_FifoOrder ==
  /\ yielded \o dequeue = EvEnqueuedFrom(1)
  /\ (op.name = "wait_event" /\ Done /\ result = "Ok" =>
        yielded # <<>> /\ f = yielded[Len(yielded)])

\* ten events returned from two refills, among them a tap, with events of
\* the second refill still queued
C26_Witness ==
  /\ op.name = "wait_event" /\ Done /\ result = "Ok"
  /\ Len(yielded) >= 10
  /\ dequeue # <<>>
  /\ \E i \in DOMAIN yielded : yielded[i].e = "Tap"
  /\ \E i \in DOMAIN yielded : yielded[i].e = "Orientation"

(***************************************************************************)
(* C27.  For every flag set in the interrupt-status value read by a refill *)
(* that ran to its end, the corresponding event is enqueued: no-motion,    *)
(* any-motion, flat, orientation, step-detected, step-count, significant   *)
(* motion, tilt, tap, error-status, temperature, gyro and accel data-ready,*)
(* FIFO-watermark and FIFO-full each produce their Event variant.          *)
(***************************************************************************)
C27_FlagEvent ==
  <<"NoMotion", "AnyMotion", "Flat", "Orientation", "StepDetector", "StepCounter",
    "SigMotion", "Tilt", "Tap", "", "ErrStatus", "TempDataReady", "GyrDataReady",
    "AccelDataReady", "FifoWatermark", "FifoFull">>

\* the number of events named e among the first n events handed out or queued
C27_Count(e, upto) ==
  Cardinality({j \in 1..upto : (yielded \o dequeue)[j].e = e})

C27_EveryFlagEnqueued ==
  \A i \in DOMAIN trace :
    EvRefillComplete(i) =>
      \A b \in DOMAIN C27_FlagEvent :
        (C27_FlagEvent[b] # "" /\ Bit(from_le_bytes(PayloadOf(trace[i])), b - 1) = 1) =>
          C27_Count(C27_FlagEvent[b], Len(yielded) + Len(dequeue))
            >= Cardinality({k \in 1..i : /\ EvRefillComplete(k)
                                         /\ Bit(from_le_bytes(PayloadOf(trace[k])), b - 1) = 1})

(***************************************************************************)
(* C28.  wait_event returns after one interrupt edge: a turn of its loop   *)
(* that awaited an edge ends the call, without a wait for a further edge.  *)
(***************************************************************************)
C28_ReturnsAfterOneEdge ==
  [][(pc = "wait_event" /\ trace' # trace) => pc' = "done"]_vars

\* the events a turn of the loop added to the history
C28_Added == SubSeq(trace', Len(trace) + 1, Len(trace'))

(***************************************************************************)
(* C28, amended.  wait_event returns a queued event without bus traffic    *)
(* and without awaiting an edge.  On an empty queue it awaits one edge and *)
(* then performs at most three register reads (INT_STATUS_INT1, and        *)
(* FEATURE_EVENT_EXT up to twice).  When the refill enqueued at least one  *)
(* event, it returns a single event without waiting for a further edge;    *)
(* when the edge wait or a read failed, it returns the error; when the     *)
(* refill succeeded and enqueued nothing, it waits for a further edge.     *)
(***************************************************************************)
C28_OneEdgeBoundedIo ==
  [][pc = "wait_event" =>
       IF dequeue # <<>>
         THEN /\ trace' = trace
              /\ pc' = "done" /\ result' = "Ok"
              /\ yielded' = Append(yielded, Head(dequeue))
              /\ dequeue' = Tail(dequeue)
         ELSE LET new == C28_Added
                  ok == \A k \in DOMAIN new : new[k].ok
                  enqueued == Len(yielded') - Len(yielded) + Len(dequeue')
              IN
              /\ new # <<>> /\ new[1].k = "edge"
              /\ Len(new) <= 4
              /\ \A k \in 2..Len(new) :
                   \/ k = 2 /\ IsRead(new[k], RegIntStatusInt1)
                   \/ k > 2 /\ IsRead(new[k], RegFeatureEventExt)
              /\ (ok /\ enqueued > 0 =>
                    /\ pc' = "done" /\ result' = "Ok"
                    /\ Len(yielded') = Len(yielded) + 1)
              /\ (~ok => pc' = "done" /\ result' # "Ok" /\ yielded' = yielded)
              /\ (ok /\ enqueued = 0 => pc' = "wait_event" /\ yielded' = yielded)]_vars

\* a call that awaited two edges: the first refill enqueued nothing, the
\* second one did and the call returned its first event
C28_Witness ==
  /\ op.name = "wait_event" /\ Done /\ result = "Ok"
  /\ Len(yielded) = 1
  /\ Cardinality(EdgeIdx) = 2
  /\ Cardinality({i \in DOMAIN trace : IsRead(trace[i], RegIntStatusInt1)}) = 2
  /\ AllOk

(***************************************************************************)
(* C25.  The event queue never holds more than 16 events.  A push onto a   *)
(* full queue drops the oldest event and appends the new one at the back;  *)
(* a push onto a queue that is not full appends it; the new event is never *)
(* the one dropped.                                                        *)
(***************************************************************************)
C25_Pushed ==
  op'.name = "push_event" =>
    /\ dequeue' = (IF Len(dequeue) = 16 THEN Tail(dequeue) ELSE dequeue) \o <<f'>>
    /\ Len(dequeue') = (IF Len(dequeue) = 16 THEN 16 ELSE Len(dequeue) + 1)

C25_BoundedEvictOldest == [][Len(dequeue) <= 16 /\ Len(dequeue') <= 16 /\ C25_Pushed]_vars

\* a push that met a full queue whose oldest event differs from the second
\* oldest: the new event is at the back of a queue that is still full
C25_Witness ==
  /\ op.name = "push_event" /\ op.n = 16
  /\ Len(dequeue) = 16
  /\ dequeue[16] = f
  /\ dequeue[1] # dequeue[15]
  /\ dequeue[15] # f

(***************************************************************************)
(* C29.  Every transfer through FEATURE_DATA_TX, written or read, carries  *)
(* an even number of payload bytes, and a raw feature operation asked to   *)
(* move an odd number of bytes fails with Error::Data before any bus       *)
(* transaction.                                                            *)
(***************************************************************************)
C29_OddRequest ==
  \/ op.name \in RawWriteOps /\ Len(op.data) % 2 = 1
  \/ op.name \in RawReadOps /\ op.n % 2 = 1

C29_EvenTransfers ==
  /\ \A i \in WriteIdx(RegFeatureDataTx) : Len(trace[i].out) % 2 = 1
  /\ \A i \in ReadIdx(RegFeatureDataTx) : trace[i].ok => Len(PayloadOf(trace[i])) % 2 = 0
  /\ (C29_OddRequest => BusIdx = {} /\ (Done => result = "Data"))

(***************************************************************************)
(* C30.  enable_feature_engine writes FEATURE_IO2 (0x2C, 0x01), then       *)
(* FEATURE_IO_STATUS (0x01, 0x00), then FEATURE_CTRL (0x01, 0x00), each    *)
(* after the one before succeeded, before its first read of FEATURE_IO1;   *)
(* all later bus traffic is reads of FEATURE_IO1; it returns Ok only after *)
(* a FEATURE_IO1 read whose error_status is Activated (1).                 *)
(***************************************************************************)
C30_IsBus(e) == e.k # "delay"
C30_Bus == SelectSeq(trace, C30_IsBus)

C30_EnableSequence ==
  op.name = "enable_feature_engine" =>
    LET bus == C30_Bus IN
    /\ \A k \in DOMAIN bus :
         /\ k > 1 => bus[k - 1].ok
         /\ k = 1 => bus[k].k = "write" /\ bus[k].out = <<RegFeatureIo2, 44, 1>>
         /\ k = 2 => bus[k].k = "write" /\ bus[k].out = <<RegFeatureIoStatus, 1, 0>>
         /\ k = 3 => bus[k].k = "write" /\ bus[k].out = <<RegFeatureCtrl, 1, 0>>
         /\ k > 3 => IsRead(bus[k], RegFeatureIo1)
    /\ (Done /\ result = "Ok" =>
          /\ Len(bus) > 3
          /\ bus[Len(bus)].ok
          /\ from_le_bytes(PayloadOf(bus[Len(bus)])) % 16 = 1)

\* the engine was activated at the third read of FEATURE_IO1
C30_Witness ==
  /\ op.name = "enable_feature_engine" /\ Done /\ result = "Ok"
  /\ Cardinality(ReadIdx(RegFeatureIo1)) = 3
  /\ Cardinality(WriteIdx(RegFeatureIo2)) = 1
  /\ Cardinality(WriteIdx(RegFeatureCtrl)) = 1

(***************************************************************************)
(* C36.  The refill runs only on an empty queue and enqueues at most 9     *)
(* events, so the queue never holds more than 9 events and push_event      *)
(* never evicts: every event a refill enqueued is still queued or was      *)
(* handed out.                                                             *)
(***************************************************************************)
C36_AtMostNine ==
  /\ Len(dequeue) <= 9
  /\ Len(yielded) + Len(dequeue) = Len(EvEnqueuedFrom(1))

C36_RefillStep ==
  /\ ReadIdx(RegIntStatusInt1)' # ReadIdx(RegIntStatusInt1) => dequeue = <<>>
  /\ Len(yielded') + Len(dequeue') - Len(yielded) - Len(dequeue) <= 9
  /\ Len(yielded') + Len(dequeue') >= Len(yielded) + Len(dequeue)

C36_RefillOnlyWhenEmpty == []C36_AtMostNine /\ [][C36_RefillStep]_vars

\* a refill that enqueued nine events, the first handed out, eight queued
C36_Witness ==
  /\ op.name = "wait_event" /\ Done /\ result = "Ok"
  /\ Len(dequeue) = 8
  /\ yielded[Len(yielded)].e = "NoMotion"
  /\ dequeue[7].e = "Tap" /\ dequeue[8].e = "Orientation"

(***************************************************************************)
(* C37.  One refill enqueues at most one Tap event, of multiplicity 1, 2   *)
(* or 3: with the tap flag set it is Tap(1) if s_tap is set, else Tap(2)   *)
(* if d_tap is set, else Tap(3) if t_tap is set, and none if none of the   *)
(* three is set.  Tap and Orientation events come after all other events   *)
(* of the same refill.                                                     *)
(***************************************************************************)
\* the events a step enqueued (the queue is empty before a refill)
C37_Enqueued == SubSeq(yielded' \o dequeue', Len(yielded) + Len(dequeue) + 1,
                       Len(yielded') + Len(dequeue'))
C37_Late(e) == e.e \in {"Tap", "Orientation"}

C37_TapOfRefill ==
  LET new == C28_Added
      enq == C37_Enqueued
      taps == {k \in DOMAIN enq : enq[k].e = "Tap"}
      st == from_le_bytes(PayloadOf(new[2]))
      ext == from_le_bytes(PayloadOf(new[3]))
      complete == \A k \in DOMAIN new : new[k].ok
      expected == IF Bit(st, 8) = 0 \/ ~complete THEN 0
                  ELSE IF Bit(ext, 3) = 1 THEN 1
                  ELSE IF Bit(ext, 4) = 1 THEN 2
                  ELSE IF Bit(ext, 5) = 1 THEN 3
                  ELSE 0
  IN
  (Len(new) >= 2 /\ new[2].ok) =>
    /\ Cardinality(taps) <= 1
    /\ \A k \in taps : enq[k].n \in 1..3 /\ enq[k].n = expected
    /\ expected # 0 => taps # {}
    /\ \A j, k \in DOMAIN enq : (C37_Late(enq[j]) /\ ~C37_Late(enq[k])) => k < j
    /\ \A j, k \in DOMAIN enq : (enq[j].e = "Orientation" /\ enq[k].e = "Tap") => k < j

C37_OneTapLast == [][pc = "wait_event" /\ dequeue = <<>> => C37_TapOfRefill]_vars

\* a refill with every status flag set whose extension word had d_tap and
\* t_tap set: Tap(2) is queued after the seven plain events, before the
\* orientation
C37_Witness ==
  /\ op.name = "wait_event" /\ Done /\ result = "Ok"
  /\ Len(dequeue) = 8
  /\ dequeue[7] = Event("Tap", 2, "", "")
  /\ dequeue[8].e = "Orientation"
  /\ \E i \in ReadIdx(RegFeatureEventExt) : PayloadOf(trace[i]) = <<54, 0>>

(***************************************************************************)
(* C38.  In the activation poll of enable_feature_engine, a FEATURE_IO1    *)
(* value whose error_status is a code without variant (2, 4 or 7) ends the *)
(* operation at once with Error::Data: that read is the last transaction,  *)
(* the poll is not continued and Error::Init is not returned.              *)
(***************************************************************************)
C38_NoVariant(e) ==
  IsRead(e, RegFeatureIo1) /\ e.ok /\ from_le_bytes(PayloadOf(e)) % 16 \in {2, 4, 7}

C38_InvalidStatusIsData ==
  op.name = "enable_feature_engine" =>
    \A i \in DOMAIN trace :
      C38_NoVariant(trace[i]) => i = Len(trace) /\ Done /\ result = "Data"

\* the second poll read a code without variant after an Inactive
C38_Witness ==
  /\ op.name = "enable_feature_engine" /\ Done /\ result = "Data"
  /\ Cardinality(ReadIdx(RegFeatureIo1)) = 2
  /\ C38_NoVariant(trace[Len(trace)])
  /\ AllOk

(***************************************************************************)
(* C39.  The driver returns only errors of the kinds I2c, Data and Init:   *)
(* InvalidChipId and InvalidMode are never returned, Init is returned only *)
(* by enable_feature_engine, and I2c only when the last bus transaction    *)
(* failed.                                                                 *)
(***************************************************************************)
C39_ErrorKinds ==
  /\ result \notin {"InvalidChipId", "InvalidMode"}
  /\ (Done => result \in {"Ok", "I2c", "Data", "Init", "Panic"})
  /\ (result = "Init" => op.name = "enable_feature_engine")
  /\ (result = "I2c" =>
        /\ trace # <<>>
        /\ trace[Len(trace)].k \in {"write", "write_read"}
        /\ ~trace[Len(trace)].ok)

\* the activation poll ran out on a bus without failure: the one Init
C39_Witness ==
  /\ op.name = "enable_feature_engine" /\ Done /\ result = "Init"
  /\ AllOk
  /\ WriteIdx(RegFeatureCtrl) # {}
  /\ \A i \in ReadIdx(RegFeatureIo1) : from_le_bytes(PayloadOf(trace[i])) % 16 # 1

(***************************************************************************)
(* C35.  An enable_<feature> operation changes only its own bits of the    *)
(* enable mask: the value it writes to FEATURE_IO0 equals the value it     *)
(* read from FEATURE_IO0 just before in each of the 15 declared flags but  *)
(* the flags of its feature, which take the values of its arguments.       *)
(***************************************************************************)
C35_Own == {op.bits[k][1] : k \in DOMAIN op.bits}

C35_MaskFrame ==
  op.name \in EnableOpNames =>
    \A i \in WriteIdx(RegFeatureIo0) :
      /\ i > 1 /\ IsRead(trace[i - 1], RegFeatureIo0) /\ trace[i - 1].ok
      /\ Len(trace[i].out) = 3
      /\ LET was == from_le_bytes(PayloadOf(trace[i - 1]))
             now == from_le_bytes(SubSeq(trace[i].out, 2, 3))
         IN /\ \A b \in (0..14) \ C35_Own : Bit(now, b) = Bit(was, b)
            /\ \A k \in DOMAIN op.bits : Bit(now, op.bits[k][1]) = op.bits[k][2]

\* enable_no_motion(false, true, false) on a mask that had no_motion_x and
\* four other flags set: x is cleared, y set, the other 12 flags are written
\* as read
C35_Witness ==
  /\ op.name = "enable_no_motion" /\ Done /\ result = "Ok"
  /\ op.bits = <<<<0, 0>>, <<1, 1>>, <<2, 0>>>>
  /\ \E i \in ReadIdx(RegFeatureIo0) : PayloadOf(trace[i]) = <<81, 138>>
  /\ \E i \in WriteIdx(RegFeatureIo0) : trace[i].out = <<RegFeatureIo0, 82, 10>>

(***************************************************************************)
(* C33.  When an enable_<feature> operation fails, or is abandoned, after  *)
(* its configuration block was written and before FEATURE_IO0 was written, *)
(* the device keeps the new block and its enable mask: the driver issues   *)
(* no write after the block (no rollback, no compensating transaction),    *)
(* and a failure is returned to the caller as the error it was.            *)
(***************************************************************************)
C33_ConfigIdx ==
  {j \in WriteIdx(RegFeatureDataTx) :
     trace[j] = I2cWrite(<<RegFeatureDataTx>> \o op.data, TRUE)}

C33_NoRollback ==
  op.name \in EnableOpNames =>
    \A j \in C33_ConfigIdx :
      /\ \A i \in (j + 1)..Len(trace) :
           trace[i].k = "write" =>
             \/ /\ IsWrite(trace[i], RegFeatureIo0)
                /\ IsRead(trace[i - 1], RegFeatureIo0) /\ trace[i - 1].ok
             \/ /\ IsWrite(trace[i], RegFeatureIoStatus)
                /\ \E k \in (j + 1)..(i - 1) : IsWrite(trace[k], RegFeatureIo0) /\ trace[k].ok
      /\ (Done /\ WriteIdx(RegFeatureIo0) = {} =>
            /\ result = "I2c"
            /\ IsRead(trace[Len(trace)], RegFeatureIo0) /\ ~trace[Len(trace)].ok
            /\ \A i \in (j + 1)..Len(trace) : trace[i].k # "write")

\* enable_tap wrote its block, then the read of FEATURE_IO0 failed
C33_Witness ==
  /\ op.name = "enable_tap" /\ Done /\ result = "I2c"
  /\ C33_ConfigIdx # {}
  /\ WriteIdx(RegFeatureIo0) = {}
  /\ IsRead(trace[Len(trace)], RegFeatureIo0)

(***************************************************************************)
(* C34.  In every public operation, each transaction on FEATURE_DATA_TX    *)
(* (0x42) is immediately preceded on the bus by a successful write of      *)
(* [feature_address, 0] to FEATURE_DATA_ADDR (0x41) that the same          *)
(* operation issued, with the feature address the operation names; a       *)
(* second access of the same operation writes the pointer again.           *)
(***************************************************************************)
C34_PublicOp == op.name \notin {"none", "write_bytes", "read_bytes"}

\* the last bus transaction before trace[i], 0 when there is none
C34_BusBefore(i) ==
  LET before == {j \in BusIdx : j < i} IN
  IF before = {} THEN 0 ELSE CHOOSE j \in before : \A k \in before : k <= j

C34_PointerBeforePayload ==
  C34_PublicOp =>
    \A i \in WriteIdx(RegFeatureDataTx) \cup ReadIdx(RegFeatureDataTx) :
      LET j == C34_BusBefore(i) IN
      /\ j > 0
      /\ trace[j] = I2cWrite(<<65, op.addr, 0>>, TRUE)

\* set_step_watermark finished: the word was read and written back through
\* FEATURE_DATA_TX, each time after its own pointer write
C34_Witness ==
  /\ op.name = "set_step_watermark" /\ Done /\ result = "Ok"
  /\ op.cfg = <<2000>>
  /\ Cardinality(WriteIdx(RegFeatureDataAddr)) = 2
  /\ Cardinality(ReadIdx(RegFeatureDataTx)) = 1
  /\ \E i \in WriteIdx(RegFeatureDataTx) : trace[i].out = <<RegFeatureDataTx, 255, 7>>

(***************************************************************************)
(* C40.  The register that wait_axis_map_complete reads is FEATURE_IO1     *)
(* (0x11), the register whose declared layout has axis_map_complete at bit *)
(* 10 and engine_state at bits 11-12, and the layout the poll decodes with *)
(* agrees with that layout on the position of every field they share.      *)
(***************************************************************************)
\* the name of the field of the type that holds the bit, "" for a skip or
\* an undeclared bit
C40_NameAt(ty, bit) ==
  LET fs == LayoutOf(ty).fields
      at == {i \in DOMAIN fs : Offset(fs, i) <= bit /\ bit < Offset(fs, i) + fs[i].w}
  IN IF at = {} THEN "" ELSE fs[CHOOSE i \in at : TRUE].n

C40_Agree(a, b) ==
  \A bit \in 0..15 :
    C40_NameAt(a, bit) = "" \/ C40_NameAt(b, bit) = "" \/ C40_NameAt(a, bit) = C40_NameAt(b, bit)

\* the reads of the completion poll: those after the axis-map command
C40_AxisPollIdx ==
  {i \in DOMAIN trace : trace[i].k = "write_read" /\ \E j \in WriteIdx(RegCmd) : j < i}

C40_AxisPollReadsDeclaredRegister ==
  op.name = "set_axis_remap" =>
    \A i \in C40_AxisPollIdx :
      /\ C40_NameAt("FeatureIo1", 10) = "axis_map_complete"
      /\ C40_NameAt("FeatureIo1", 11) = "engine_state"
      /\ C40_NameAt("FeatureIo1", 12) = "engine_state"
      /\ C40_Agree("FeatureEngineStatusReg", "FeatureIo1")
      /\ trace[i].out = <<17>>

(***************************************************************************)
(* C31.  get_accel_data scales each raw axis by the factor of the range    *)
(* read from ACC_CONF: 1/16384 g per LSB at +-2g, 1/8192 at +-4g, 1/4096   *)
(* at +-8g and 1/2048 at +-16g.  A raw 16384 at +-2g and a raw 2048 at     *)
(* +-16g both read 1.00 g.                                                 *)
(***************************************************************************)
\* the signed value of the little-endian word at bytes i, i + 1 of a payload
C31_Word(b, i) ==
  LET u == b[i] + 256 * b[i + 1] IN IF u >= 32768 THEN u - 65536 ELSE u

\* LSB per g of the range code in bits 4..6 of an ACC_CONF payload
C31_LsbPerG(b) ==
  LET code == ((b[1] + 256 * b[2]) \div 16) % 8 IN
  CASE code = 0 -> 16384 [] code = 1 -> 8192 [] code = 2 -> 4096 [] code = 3 -> 2048
    [] OTHER -> 0

C31_Returned == op.name = "get_accel_data" /\ Done /\ result = "Ok"

C31_Raw == SubSeq(trace[1].in, 3, 8)

C31_Conf == SubSeq(trace[2].in, 3, 4)

C31_ScaledByRangeRead ==
  C31_Returned =>
    /\ Len(trace) = 2
    /\ trace[1].k = "write_read" /\ trace[1].out = <<3>>
    /\ trace[2].k = "write_read" /\ trace[2].out = <<32>>
    /\ C31_LsbPerG(C31_Conf) # 0
    /\ \A a \in 1..3 :
         /\ f[a] * C31_LsbPerG(C31_Conf) = C31_Word(C31_Raw, 2 * a - 1) * G_UNITS
         /\ C31_LsbPerG(C31_Conf) = 16384 /\ C31_Word(C31_Raw, 2 * a - 1) = 16384
              => f[a] = G_UNITS
         /\ C31_LsbPerG(C31_Conf) = 2048 /\ C31_Word(C31_Raw, 2 * a - 1) = 2048
              => f[a] = G_UNITS

\* +-16g read from ACC_CONF: the raw 2048 of the y axis reads 1.00 g, the raw
\* -2048 of the z axis -1.00 g, the raw 16384 of the x axis 8.00 g
C31_Witness ==
  /\ C31_Returned
  /\ C31_LsbPerG(C31_Conf) = 2048
  /\ C31_Raw = <<0, 64, 0, 8, 0, 248>>
  /\ f = <<8 * G_UNITS, G_UNITS, -G_UNITS>>

(***************************************************************************)
(* C32.  Without external serialization the bus transactions of two        *)
(* feature-memory accesses to different feature addresses interleave, and  *)
(* a payload can go through FEATURE_DATA_TX while FEATURE_DATA_ADDR holds  *)
(* the address of the other access: no step of an access waits for the     *)
(* other handle.                                                           *)
(***************************************************************************)
\* the successful writes of FEATURE_DATA_ADDR among the first n transactions
C32_PointerWrites(n) ==
  {k \in 1..n : /\ wire[k].ev.k = "write" /\ wire[k].ev.ok
                /\ wire[k].ev.out[1] = RegFeatureDataAddr}

\* what FEATURE_DATA_ADDR holds after the first n transactions (-1: never
\* written by either handle)
C32_PointerAfter(n) ==
  LET w == C32_PointerWrites(n) IN
  IF w = {} THEN -1
  ELSE wire[CHOOSE k \in w : \A m \in w : m <= k].ev.out[2]

\* transaction k moved a payload through FEATURE_DATA_TX
C32_IsTransfer(k) ==
  /\ wire[k].ev.ok
  /\ wire[k].ev.out[1] = RegFeatureDataTx

\* transfer k went to the feature address of the other handle
C32_Misdirected(k) ==
  LET i == wire[k].by IN
  /\ C32_IsTransfer(k)
  /\ \E j \in Handles \ {i} :
       /\ handles[j].op.addr # handles[i].op.addr
       /\ C32_PointerAfter(k - 1) = handles[j].op.addr

C32_NoMutualExclusion ==
  \A i \in Handles :
    handles[i].pc \notin {"idle", "done"} => ENABLED feature_access(i)

\* a write of handle 1 went through the data window after handle 2 had set
\* the pointer to its own, different address; both accesses returned Ok
C32_Witness ==
  /\ \E k \in DOMAIN wire :
       /\ wire[k].by = 1 /\ wire[k].ev.k = "write"
       /\ C32_Misdirected(k)
  /\ \A i \in Handles : handles[i].pc = "done" /\ handles[i].result = "Ok"

====
